---------------------------- MODULE Spec2Model ----------------------------
(***************************************************************************)
(* Fixed-window rate limiter on a shared counter store: the hot-key        *)
(* micro-batcher (HotKeyBatcher), the slot-aware pipelines of DoLimit and  *)
(* the store they drive.                                                    *)
(***************************************************************************)
EXTENDS Integers, Sequences, FiniteSets, TLC

\* ------------------------------------------------------------------------
\* Bounds of the model
\* ------------------------------------------------------------------------
MaxSubmits == 2      \* Submit calls made directly on the batchers
MaxReqs    == 2      \* DoLimit calls

\* hitsAddend of a Submit made directly on a batcher
Addends == {0, 1, 2}

\* ------------------------------------------------------------------------
\* Program data
\* ------------------------------------------------------------------------
Clients == {"main", "perSecond"}

\* Counter keys of one window: k1 of a rule with unit MINUTE, k2 of a rule
\* with unit SECOND.  The two keys hash to different cluster slots.
Keys == {"k1", "k2"}

KeyOrder == <<"k1", "k2">>

\* cacheKey.Key of a descriptor without a rule
NoKey == ""

PerSecond(key) == key = "k2"

UnitToDivider(key) == IF PerSecond(key) THEN 1 ELSE 60

ClusterSlot(key) == IF key = "k1" THEN 5 ELSE 9

NoErr == "nil"
IOErr == "io"
CrossSlotErr == "CROSSSLOT"

VARIABLES
    isCluster,        \* [Clients -> BOOLEAN]   clientImpl.isCluster
    perSecondClient,  \* BOOLEAN                perSecondClient != nil
    store,            \* [Clients -> [Keys -> Nat]]  counter values
    ttl,              \* [Clients -> [Keys -> Nat]]  last EXPIRE of the key
    pending,          \* [Clients -> [Keys -> aggregatedIncrement]]
    running,          \* [Clients -> BOOLEAN]   HotKeyBatcher.running
    stopClosed,       \* [Clients -> BOOLEAN]   stopChan is closed
    tickerOn,         \* [Clients -> BOOLEAN]   ticker created and not stopped
    wg,               \* [Clients -> Nat]       HotKeyBatcher.wg counter
    worker,           \* [Clients -> [pc, toFlush]]  the flushLoop goroutine
                      \* and the batch of its latest flush
    waiters,          \* Seq of pendingWaiter, in creation order
    caller,           \* the goroutine that calls Start / Stop / Close
    panicked,         \* BOOLEAN                the process died of a panic
    stopCacheKeyIncrementWhenOverlimit,   \* BOOLEAN, the engine's policy
    shadowMode,       \* BOOLEAN                ShadowMode of the rule of k1
    localCache,       \* set of keys the local cache holds as over limit
    reqs,             \* Seq of records        the DoLimit calls
    calls,            \* Seq of records        calls of getHitsAddend
    counters,         \* [Rows -> [Cells -> Nat]]  CountMinSketch.counters
    hotKeys,          \* set of keys           HotKeyDetector.hotKeys
    hotKeysList,      \* Seq of keys           HotKeyDetector.hotKeysList
    decayDue,         \* BOOLEAN   time.Since(lastDecayTime) >= decayInterval
    mu,               \* the goroutine that holds d.mu for writing, or NoOne
    gor,              \* [Goroutines -> record]  callers of the detector
    accesses,         \* Nat       RecordAccess calls made so far
    trueCount,        \* [Keys -> Nat]  deltas passed to Increment, summed
                      \* as long as neither Decay nor Reset has run
    pristine,         \* BOOLEAN   neither Decay nor Reset has run so far
    maxHotKeys,       \* Nat       HotKeyDetector.maxHotKeys (configuration)
    recency,          \* Seq of keys  the hot keys in the order in which a
                      \* RecordAccess call last returned true for them
    interval,         \* [decays, reset]  since decayInterval last ran out:
                      \* the callers that set lastDecayTime in maybeDecay,
                      \* and whether Reset has set it
    bmu,              \* [Clients -> record]  who holds HotKeyBatcher.mu, in
                      \* the runs that take and release it in separate steps
    loops,            \* Seq of [pc, toFlush]  the flushLoop goroutines of
                      \* hotKeyBatcher, in the runs with concurrent Start and
                      \* Stop calls
    users,            \* [Users -> record]  the goroutines that call Start
                      \* and Stop concurrently
    lifecycleCalls,   \* Nat  Start and Stop calls made by the users
    ExpirationJitterMaxSeconds   \* Nat  baseRateLimiter's jitter maximum

bvars == <<isCluster, perSecondClient, store, ttl, pending, running,
           stopClosed, tickerOn, wg, worker, waiters, caller,
           panicked>>

cvars == <<stopCacheKeyIncrementWhenOverlimit, shadowMode,
           ExpirationJitterMaxSeconds>>

evars == <<cvars, localCache, reqs>>

dvars == <<calls, counters, hotKeys, hotKeysList, decayDue, mu, gor,
           accesses, trueCount, pristine, maxHotKeys, recency, interval>>

svars == <<loops, users, lifecycleCalls>>

lvars == <<bmu, svars>>

vars == <<bvars, evars, dvars, lvars>>

\* ------------------------------------------------------------------------
\* Helpers
\* ------------------------------------------------------------------------
NoAgg == [exists |-> FALSE, totalHits |-> 0, expirationSeconds |-> 0,
          waiters |-> <<>>]

EmptyPending == [k \in Keys |-> NoAgg]

PendingKeys(p) == {k \in Keys : p[k].exists}

\* The goroutines that call Start and Stop of hotKeyBatcher concurrently.
Users == {"u1", "u2"}

\* b.mu is free.
Unlocked == [by |-> "none", key |-> "k1", hitsAddend |-> 0,
             expirationSeconds |-> 0]

Value(v) == [Value |-> v, Err |-> NoErr]

Error(e) == [Value |-> 0, Err |-> e]

\* Mutant: every key is served by this.client.
ClientOfMain(key) == "main"

\* The client whose store and batcher serve the key:
\* this.perSecondClient != nil && cacheKey.PerSecond
ClientOf(key) == IF perSecondClient /\ PerSecond(key) THEN "perSecond" ELSE "main"

GetSlot(c, key) == IF ~isCluster[c] THEN 0 ELSE ClusterSlot(key)

\* ------------------------------------------------------------------------
\* The store behind a client: a pipeline is a sequence of commands
\* [op, key, arg] executed in order on one connection.
\* ------------------------------------------------------------------------
Cmd(op, key, arg) == [op |-> op, key |-> key, arg |-> arg]

PipelineKeys(p) == {p[i].key : i \in 1..Len(p)}

PipelineSlots(c, p) == {GetSlot(c, k) : k \in PipelineKeys(p)}

\* Result of running pipeline p against counters st and TTLs tt:
\* INCRBY returns the new value, GET the current one (0 when absent).
\* res collects the replies of the commands already run.
RECURSIVE ExecFrom(_, _, _, _)
ExecFrom(p, st, tt, res) ==
    IF p = <<>> THEN [st |-> st, tt |-> tt, res |-> res]
    ELSE LET cmd == Head(p)
             st1 == IF cmd.op = "INCRBY"
                    THEN [st EXCEPT ![cmd.key] = @ + cmd.arg] ELSE st
             tt1 == IF cmd.op = "EXPIRE"
                    THEN [tt EXCEPT ![cmd.key] = cmd.arg] ELSE tt
             r   == IF cmd.op = "EXPIRE" THEN 1 ELSE st1[cmd.key]
         IN ExecFrom(Tail(p), st1, tt1, Append(res, r))

ExecPipeline(p, st, tt) == ExecFrom(p, st, tt, <<>>)

\* The errors PipeDo of client c can return for pipeline p: a cluster
\* refuses a pipeline whose keys hash to more than one slot; any round
\* trip can fail with a connection error.
PipeDoErrors(c, p) ==
    IF isCluster[c] /\ Cardinality(PipelineSlots(c, p)) > 1
    THEN {CrossSlotErr}
    ELSE {NoErr, IOErr}

\* ------------------------------------------------------------------------
\* HotKeyBatcher
\* ------------------------------------------------------------------------
HasBatcher(c) == c = "main" \/ perSecondClient

\* A pendingWaiter with its result channel; sent is the history of the
\* channel, expirationSeconds the argument of the Submit call that made it.
NewWaiter(c, key, hitsAddend, expirationSeconds) ==
    [client |-> c, key |-> key, hitsAddend |-> hitsAddend,
     expirationSeconds |-> expirationSeconds,
     chan |-> <<>>, closed |-> FALSE, sent |-> <<>>]

\* Mutant: a later Submit replaces the hits the key has aggregated.
SubmitPendingOverwrite(p, key, hitsAddend, expirationSeconds, id) ==
    [p EXCEPT ![key] =
        [exists |-> TRUE,
         totalHits |-> hitsAddend,
         expirationSeconds |-> expirationSeconds,
         waiters |-> Append((IF p[key].exists THEN p[key] ELSE NoAgg).waiters, id)]]

\* Mutant: the expiration of the latest Submit is kept.
SubmitPendingLastExpiration(p, key, hitsAddend, expirationSeconds, id) ==
    LET agg == IF p[key].exists THEN p[key] ELSE NoAgg
    IN [p EXCEPT ![key] =
          [exists |-> TRUE,
           totalHits |-> agg.totalHits + hitsAddend,
           expirationSeconds |-> expirationSeconds,
           waiters |-> Append(agg.waiters, id)]]

\* Submit: the pending map of batcher c after the waiter with index id has
\* been added for the key.
SubmitPending(p, key, hitsAddend, expirationSeconds, id) ==
    LET agg == IF p[key].exists THEN p[key]
               ELSE [exists |-> TRUE, totalHits |-> 0,
                     expirationSeconds |-> expirationSeconds,
                     waiters |-> <<>>]
    IN [p EXCEPT ![key] =
          [exists |-> TRUE,
           totalHits |-> agg.totalHits + hitsAddend,
           expirationSeconds |->
               IF expirationSeconds > agg.expirationSeconds
               THEN expirationSeconds ELSE agg.expirationSeconds,
           waiters |-> Append(agg.waiters, id)]]

\* Submit on batcher c: a new waiter, added to the key's aggregate under
\* b.mu; the waiter's channel is what the caller gets back.
Submit(c, key, hitsAddend, expirationSeconds) ==
    /\ waiters' = Append(waiters,
                         NewWaiter(c, key, hitsAddend, expirationSeconds))
    /\ pending' = [pending EXCEPT ![c] =
           SubmitPending(@, key, hitsAddend, expirationSeconds,
                         Len(waiters) + 1)]

\* Submit called directly on batcher c.
SubmitCall(c, key, hitsAddend, expirationSeconds) ==
    /\ ~panicked
    /\ HasBatcher(c)
    /\ Len(waiters) < MaxSubmits
    /\ Submit(c, key, hitsAddend, expirationSeconds)
    /\ UNCHANGED <<isCluster, perSecondClient, store, ttl, running,
                   stopClosed, tickerOn, wg, worker, caller,
                   panicked, evars, dvars, lvars>>

\* Mutant: one INCRBY per waiter of the key.
RECURSIVE FlushPipelineFromPerWaiter(_, _)
FlushPipelineFromPerWaiter(toFlush, i) ==
    IF i > Len(KeyOrder) THEN <<>>
    ELSE LET key == KeyOrder[i]
             agg == toFlush[key]
         IN (IF agg.exists
             THEN [j \in 1..Len(agg.waiters) |->
                     Cmd("INCRBY", key, waiters[agg.waiters[j]].hitsAddend)]
                  \o <<Cmd("EXPIRE", key, agg.expirationSeconds)>>
             ELSE <<>>) \o FlushPipelineFromPerWaiter(toFlush, i + 1)

\* flush, pipeline construction: INCRBY and EXPIRE of every key of toFlush.
RECURSIVE FlushPipelineFrom(_, _)
FlushPipelineFrom(toFlush, i) ==
    IF i > Len(KeyOrder) THEN <<>>
    ELSE LET key == KeyOrder[i]
             agg == toFlush[key]
         IN (IF agg.exists
             THEN <<Cmd("INCRBY", key, agg.totalHits),
                    Cmd("EXPIRE", key, agg.expirationSeconds)>>
             ELSE <<>>) \o FlushPipelineFrom(toFlush, i + 1)

FlushPipeline(toFlush) == FlushPipelineFrom(toFlush, 1)

\* flush, per-waiter results: walk the waiters backwards from finalCount.
RECURSIVE ReverseWalk(_, _, _)
ReverseWalk(ws, i, runningCount) ==
    IF i = 0 THEN <<>>
    ELSE ReverseWalk(ws, i - 1, runningCount - waiters[ws[i]].hitsAddend)
         \o <<runningCount>>

\* Mutant: every waiter is handed finalCount.
WaiterResultsFinalCount(agg, finalCount) ==
    [i \in 1..Len(agg.waiters) |-> finalCount]

WaiterResults(agg, finalCount) ==
    ReverseWalk(agg.waiters, Len(agg.waiters), finalCount)

\* Mutant: on a failed pipeline only the first waiter of a key is told.
FlushResultErrFirst(toFlush, err, st, id) ==
    LET key == waiters[id].key
        agg == toFlush[key]
        pos == CHOOSE i \in 1..Len(agg.waiters) : agg.waiters[i] = id
    IN IF err # NoErr /\ pos = 1 THEN Error(err)
       ELSE Value(WaiterResults(agg, st[key])[pos])

\* The result flush sends to waiter id of toFlush.
FlushResult(toFlush, err, st, id) ==
    LET key == waiters[id].key
        agg == toFlush[key]
        pos == CHOOSE i \in 1..Len(agg.waiters) : agg.waiters[i] = id
    IN IF err # NoErr THEN Error(err)
       ELSE Value(WaiterResults(agg, st[key])[pos])

\* Mutant: only the first waiter of every key is served.
FlushWaitersFirst(toFlush) ==
    {toFlush[k].waiters[1] : k \in PendingKeys(toFlush)}

FlushWaiters(toFlush) ==
    UNION {{toFlush[k].waiters[i] : i \in 1..Len(toFlush[k].waiters)} :
           k \in PendingKeys(toFlush)}

\* flush, first half (under b.mu): nothing to do on an empty pending map,
\* otherwise swap the map for a fresh one.  next is where the worker
\* continues when the map was empty, busy where it executes the batch.
FlushSwap(c, next, busy) ==
    IF PendingKeys(pending[c]) = {}
    THEN /\ worker' = [worker EXCEPT ![c].pc = next]
         /\ wg' = IF next = "exited" THEN [wg EXCEPT ![c] = @ - 1] ELSE wg
         /\ UNCHANGED pending
    ELSE /\ worker' = [worker EXCEPT ![c] = [pc |-> busy, toFlush |-> pending[c]]]
         /\ pending' = [pending EXCEPT ![c] = EmptyPending]
         /\ UNCHANGED wg

\* flushLoop, case <-b.ticker.C
Tick(c) ==
    /\ ~panicked
    /\ worker[c].pc = "select"
    /\ tickerOn[c]
    /\ FlushSwap(c, "select", "flush")
    /\ UNCHANGED <<isCluster, perSecondClient, store, ttl, running,
                   stopClosed, tickerOn, waiters, caller,
                   panicked, evars, dvars, lvars>>

\* flushLoop, case <-b.stopChan: the final flush, then return.
StopSignal(c) ==
    /\ ~panicked
    /\ worker[c].pc = "select"
    /\ stopClosed[c]
    /\ FlushSwap(c, "exited", "final")
    /\ UNCHANGED <<isCluster, perSecondClient, store, ttl, running,
                   stopClosed, tickerOn, waiters, caller,
                   panicked, evars, dvars, lvars>>

\* Submit: make(chan HotKeyBatcherResult, 1)
resultChanCapacity == 1

\* Mutant: make(chan HotKeyBatcherResult); a send waits until the DoLimit
\* call that submitted the waiter is receiving.
SendReadyUnbuffered(id) ==
    \E r \in 1..Len(reqs) :
        /\ reqs[r].pc = "recv"
        /\ \E i \in 1..Len(reqs[r].hotKeyResultChans) :
              reqs[r].hotKeyResultChans[i] = id /\ i \notin reqs[r].received

\* waiter.resultChan <- result goes through without waiting: the buffer of
\* the channel has room.
SendReady(id) == Len(waiters[id].chan) < resultChanCapacity

\* flush, second half (b.mu released): build the pipeline, PipeDo, send
\* every waiter its result and close its channel.
FlushBatch(c, toFlush) ==
    LET pipeline == FlushPipeline(toFlush)
    IN \E err \in PipeDoErrors(c, pipeline) :
         LET out == IF err = NoErr
                    THEN ExecPipeline(pipeline, store[c], ttl[c])
                    ELSE [st |-> store[c], tt |-> ttl[c]]
         IN /\ \A id \in FlushWaiters(toFlush) : SendReady(id)
            /\ store' = [store EXCEPT ![c] = out.st]
            /\ ttl' = [ttl EXCEPT ![c] = out.tt]
            /\ waiters' =
                 [id \in 1..Len(waiters) |->
                    IF id \in FlushWaiters(toFlush)
                    THEN LET res == FlushResult(toFlush, err, out.st, id)
                         IN [waiters[id] EXCEPT
                                !.chan = Append(@, res),
                                !.sent = Append(@, res),
                                !.closed = TRUE]
                    ELSE waiters[id]]

\* The flush of the worker of batcher c, after the swap.
FlushExec(c) ==
    /\ ~panicked
    /\ worker[c].pc \in {"flush", "final"}
    /\ FlushBatch(c, worker[c].toFlush)
    /\ worker' = [worker EXCEPT ![c].pc =
           IF worker[c].pc = "final" THEN "exited" ELSE "select"]
    /\ wg' = IF worker[c].pc = "final" THEN [wg EXCEPT ![c] = @ - 1] ELSE wg
    /\ UNCHANGED <<isCluster, perSecondClient, pending, running,
                   stopClosed, tickerOn, caller, panicked, evars, dvars, lvars>>

\* ------------------------------------------------------------------------
\* Start / Stop of a batcher and Close of the engine, called by one
\* goroutine.
\* ------------------------------------------------------------------------
Idle == [pc |-> "idle", c |-> "main", rest |-> <<>>, mark |-> 0]

\* Start
Start(c) ==
    /\ ~panicked
    /\ HasBatcher(c)
    /\ caller.pc = "idle"
    /\ ~running[c]
    /\ running' = [running EXCEPT ![c] = TRUE]
    /\ tickerOn' = [tickerOn EXCEPT ![c] = TRUE]
    /\ wg' = [wg EXCEPT ![c] = @ + 1]
    /\ worker' = [worker EXCEPT ![c] = [pc |-> "select", toFlush |-> EmptyPending]]
    /\ caller' = Idle
    /\ UNCHANGED <<isCluster, perSecondClient, store, ttl, pending,
                   stopClosed, waiters, panicked, evars, dvars, lvars>>

\* Stop, up to the release of b.mu: return at once when not running.
\* rest are the batchers Close stops after this one.
StopLock(c, rest) ==
    /\ IF ~running[c]
       THEN /\ caller' = IF rest = <<>> THEN Idle
                         ELSE [pc |-> "stop", c |-> Head(rest),
                               rest |-> Tail(rest), mark |-> 0]
            /\ UNCHANGED running
       ELSE /\ running' = [running EXCEPT ![c] = FALSE]
            /\ caller' = [pc |-> "close", c |-> c, rest |-> rest,
                          mark |-> Len(waiters)]
    /\ UNCHANGED <<isCluster, perSecondClient, store, ttl, pending,
                   stopClosed, tickerOn, wg, worker, waiters,
                   panicked, evars, dvars, lvars>>

Stop(c) ==
    /\ ~panicked
    /\ HasBatcher(c)
    /\ caller.pc = "idle"
    /\ StopLock(c, <<>>)

\* Close of the engine: Stop of hotKeyBatcher, then of perSecondBatcher.
Close ==
    /\ ~panicked
    /\ caller.pc = "idle"
    /\ StopLock("main", IF perSecondClient THEN <<"perSecond">> ELSE <<>>)

CloseNext ==
    /\ ~panicked
    /\ caller.pc = "stop"
    /\ StopLock(caller.c, caller.rest)

\* Stop: close(b.stopChan); closing a closed channel panics.
StopCloseChan ==
    /\ ~panicked
    /\ caller.pc = "close"
    /\ IF stopClosed[caller.c]
       THEN /\ panicked' = TRUE
            /\ UNCHANGED <<stopClosed, caller>>
       ELSE /\ stopClosed' = [stopClosed EXCEPT ![caller.c] = TRUE]
            /\ caller' = [caller EXCEPT !.pc = "wait"]
            /\ UNCHANGED panicked
    /\ UNCHANGED <<isCluster, perSecondClient, store, ttl, pending, running,
                   tickerOn, wg, worker, waiters, evars, dvars, lvars>>

\* Stop: b.wg.Wait(), b.ticker.Stop(), return.
StopWait ==
    /\ ~panicked
    /\ caller.pc = "wait"
    /\ wg[caller.c] = 0
    /\ tickerOn' = [tickerOn EXCEPT ![caller.c] = FALSE]
    /\ caller' = [caller EXCEPT !.pc = "stopped"]
    /\ UNCHANGED <<isCluster, perSecondClient, store, ttl, pending, running,
                   stopClosed, wg, worker, waiters, panicked, evars, dvars, lvars>>

\* Stop has returned: the caller goes on (Close with its next batcher).
StopReturn ==
    /\ ~panicked
    /\ caller.pc = "stopped"
    /\ caller' = IF caller.rest = <<>> THEN Idle
                 ELSE [pc |-> "stop", c |-> Head(caller.rest),
                       rest |-> Tail(caller.rest), mark |-> 0]
    /\ UNCHANGED <<isCluster, perSecondClient, store, ttl, pending, running,
                   stopClosed, tickerOn, wg, worker, waiters,
                   panicked, evars, dvars, lvars>>

\* ------------------------------------------------------------------------
\* CountMinSketch and HotKeyDetector: the state after NewHotKeyDetector
\* ------------------------------------------------------------------------
\* Dimensions of the sketch (the code takes them from the configuration).
depth == 2

width == 2

Rows == 1..depth

Cells == 0..(width - 1)

\* Counters are unsigned machine words; the model gives them CounterBits
\* bits, so that CounterMax stands for 0xFFFFFFFF.
CounterBits == 3

CounterMax == 2^CounterBits - 1

hotThreshold == 3

\* The keys the detector is asked about.
DetectorKeys == Keys \cup {"k3"}

NoOne == "none"

Goroutines == {"g1", "g2"}

IdleGoroutine == [pc |-> "idle", key |-> "k1", delta |-> 0, count |-> 0,
                  i |-> 0, newList |-> <<>>, ret |-> FALSE,
                  hotAtCall |-> {}, hotAtIncrement |-> {}, wasHot |-> FALSE]

\* NewHotKeyDetector with config.MaxHotKeys = max
InitDetectorWith(max) ==
    /\ calls = <<>>
    /\ counters = [row \in Rows |-> [idx \in Cells |-> 0]]
    /\ hotKeys = {}
    /\ hotKeysList = <<>>
    /\ decayDue = FALSE
    /\ mu = NoOne
    /\ gor = [g \in Goroutines |-> IdleGoroutine]
    /\ accesses = 0
    /\ trueCount = [k \in DetectorKeys |-> 0]
    /\ pristine = TRUE
    /\ maxHotKeys = max
    /\ recency = <<>>
    /\ interval = [decays |-> 0, reset |-> FALSE]

InitDetector == InitDetectorWith(1)

\* ------------------------------------------------------------------------
\* The batchers alone: Submit is called directly on them.
\* ------------------------------------------------------------------------
Jitters ==
    IF ExpirationJitterMaxSeconds > 0
    THEN 0..(ExpirationJitterMaxSeconds - 1)
    ELSE {0}

\* Counters of the current window may already hold hits, counted through
\* other replicas of the limiter.
InitialCounts == {0, 5}

InitStore ==
    /\ store \in {[c \in Clients |-> [k \in Keys |-> v]] : v \in InitialCounts}
    /\ ttl = [c \in Clients |-> [k \in Keys |-> 0]]

\* State after NewFixedRateLimitCacheImpl with hot-key detection enabled:
\* every batcher has been started.
InitStarted ==
    /\ pending = [c \in Clients |-> EmptyPending]
    /\ running = [c \in Clients |-> HasBatcher(c)]
    /\ stopClosed = [c \in Clients |-> FALSE]
    /\ tickerOn = [c \in Clients |-> HasBatcher(c)]
    /\ wg = [c \in Clients |-> IF HasBatcher(c) THEN 1 ELSE 0]
    /\ worker = [c \in Clients |->
                   [pc |-> IF HasBatcher(c) THEN "select" ELSE "none",
                    toFlush |-> EmptyPending]]
    /\ waiters = <<>>
    /\ caller = Idle
    /\ panicked = FALSE
    /\ bmu = [c \in Clients |-> Unlocked]
    /\ loops = <<>>
    /\ users = [u \in Users |-> "idle"]
    /\ lifecycleCalls = 0

InitB ==
    /\ isCluster \in {[c \in Clients |-> b] : b \in BOOLEAN}
    /\ perSecondClient \in BOOLEAN
    /\ InitStore
    /\ InitStarted
    /\ stopCacheKeyIncrementWhenOverlimit = FALSE
    /\ ExpirationJitterMaxSeconds = 0
    /\ shadowMode = FALSE
    /\ localCache = {}
    /\ reqs = <<>>
    /\ InitDetector

SubmitAny ==
    \E key \in Keys, hitsAddend \in Addends, j \in Jitters :
        SubmitCall(ClientOf(key), key, hitsAddend, UnitToDivider(key) + j)

NextB ==
    \/ SubmitAny
    \/ \E c \in Clients : Tick(c)
    \/ \E c \in Clients : StopSignal(c)
    \/ \E c \in Clients : FlushExec(c)
    \/ Close
    \/ CloseNext
    \/ StopCloseChan
    \/ StopWait
    \/ StopReturn

SpecB == InitB /\ [][NextB]_vars

\* The batchers while their workers run: Stop is never called.
NextBRun ==
    \/ SubmitAny
    \/ \E c \in Clients : Tick(c)
    \/ \E c \in Clients : FlushExec(c)

\* The ticker fires every flushWindow and a store round trip ends.
InitBLive == InitB /\ \A c \in Clients, k \in Keys : store[c][k] = 0

SpecBLive ==
    /\ InitBLive
    /\ [][NextBRun]_vars
    /\ WF_vars(\E c \in Clients : Tick(c) \/ FlushExec(c))

\* The batchers with Stop, while the ticker fires, a store round trip ends
\* and the worker takes a closed stopChan.
SpecBStop ==
    /\ InitBLive
    /\ [][NextB]_vars
    /\ WF_vars(\E c \in Clients : Tick(c) \/ StopSignal(c) \/ FlushExec(c))

\* ------------------------------------------------------------------------
\* Submit and flush with b.mu taken and released in separate steps.
\* ------------------------------------------------------------------------
\* Submit: b.mu.Lock()
SubmitLock(c, key, hitsAddend, expirationSeconds) ==
    /\ ~panicked
    /\ HasBatcher(c)
    /\ Len(waiters) < MaxSubmits
    /\ bmu[c].by = "none"
    /\ bmu' = [bmu EXCEPT ![c] =
           [by |-> "Submit", key |-> key, hitsAddend |-> hitsAddend,
            expirationSeconds |-> expirationSeconds]]
    /\ UNCHANGED <<bvars, evars, dvars, svars>>

\* Submit: the entry of the key is updated, b.mu.Unlock(), return.
SubmitUnlock(c) ==
    /\ ~panicked
    /\ bmu[c].by = "Submit"
    /\ Submit(c, bmu[c].key, bmu[c].hitsAddend, bmu[c].expirationSeconds)
    /\ bmu' = [bmu EXCEPT ![c] = Unlocked]
    /\ UNCHANGED <<isCluster, perSecondClient, store, ttl, running,
                   stopClosed, tickerOn, wg, worker, caller,
                   panicked, evars, dvars, svars>>

\* flush, called on a tick: b.mu.Lock()
flushLock(c) ==
    /\ ~panicked
    /\ worker[c].pc = "select"
    /\ tickerOn[c]
    /\ bmu[c].by = "none"
    /\ bmu' = [bmu EXCEPT ![c].by = "flush"]
    /\ worker' = [worker EXCEPT ![c].pc = "locked"]
    /\ UNCHANGED <<isCluster, perSecondClient, store, ttl, pending, running,
                   stopClosed, tickerOn, wg, waiters, caller,
                   panicked, evars, dvars, svars>>

\* Mutant: b.mu is released by a deferred Unlock, when flush returns.
MuAfterSwapHeld == [Unlocked EXCEPT !.by = "flush"]

\* b.mu after the empty test and the swap of flush: released.
MuAfterSwap == Unlocked

\* flush: return on an empty map, else swap it; b.mu.Unlock()
flushUnlock(c) ==
    /\ ~panicked
    /\ worker[c].pc = "locked"
    /\ FlushSwap(c, "select", "flush")
    /\ bmu' = [bmu EXCEPT ![c] = MuAfterSwap]
    /\ UNCHANGED <<isCluster, perSecondClient, store, ttl, running,
                   stopClosed, tickerOn, waiters, caller,
                   panicked, evars, dvars, svars>>

InitLock == InitBLive /\ ~isCluster["main"] /\ ~perSecondClient

NextLock ==
    \/ \E key \in Keys, hitsAddend \in Addends :
          SubmitLock(ClientOf(key), key, hitsAddend, UnitToDivider(key))
    \/ \E c \in Clients : SubmitUnlock(c)
    \/ \E c \in Clients : flushLock(c)
    \/ \E c \in Clients : flushUnlock(c)
    \/ \E c \in Clients : FlushExec(c)

SpecLock == InitLock /\ [][NextLock]_vars

\* ------------------------------------------------------------------------
\* Start and Stop of hotKeyBatcher called by concurrent goroutines; every
\* successful Start runs a flushLoop goroutine of its own.
\* ------------------------------------------------------------------------
MaxLifecycleCalls == 3

LifecycleFrame ==
    UNCHANGED <<isCluster, perSecondClient, worker, caller, evars, dvars, bmu>>

\* The flushLoop goroutines that have not returned.
LiveLoops == {w \in 1..Len(loops) : loops[w].pc # "exited"}

\* Start, under b.mu: return when running, else running = true and a new
\* ticker.
StartBy(u) ==
    /\ ~panicked
    /\ users[u] = "idle"
    /\ lifecycleCalls < MaxLifecycleCalls
    /\ lifecycleCalls' = lifecycleCalls + 1
    /\ IF running["main"]
       THEN UNCHANGED <<running, tickerOn, users>>
       ELSE /\ running' = [running EXCEPT !["main"] = TRUE]
            /\ tickerOn' = [tickerOn EXCEPT !["main"] = TRUE]
            /\ users' = [users EXCEPT ![u] = "go"]
    /\ UNCHANGED <<store, ttl, pending, stopClosed, wg, waiters, panicked,
                   loops>>
    /\ LifecycleFrame

\* Start: b.wg.Add(1); go b.flushLoop()
StartGo(u) ==
    /\ ~panicked
    /\ users[u] = "go"
    /\ wg' = [wg EXCEPT !["main"] = @ + 1]
    /\ loops' = Append(loops, [pc |-> "select", toFlush |-> EmptyPending])
    /\ users' = [users EXCEPT ![u] = "idle"]
    /\ UNCHANGED <<store, ttl, pending, running, stopClosed, tickerOn,
                   waiters, panicked, lifecycleCalls>>
    /\ LifecycleFrame

\* Stop, under b.mu: return when not running, else running = false.
StopBy(u) ==
    /\ ~panicked
    /\ users[u] = "idle"
    /\ lifecycleCalls < MaxLifecycleCalls
    /\ lifecycleCalls' = lifecycleCalls + 1
    /\ IF ~running["main"]
       THEN UNCHANGED <<running, users>>
       ELSE /\ running' = [running EXCEPT !["main"] = FALSE]
            /\ users' = [users EXCEPT ![u] = "close"]
    /\ UNCHANGED <<store, ttl, pending, stopClosed, tickerOn, wg, waiters,
                   panicked, loops>>
    /\ LifecycleFrame

\* Stop: close(b.stopChan); closing a closed channel panics.
StopCloseBy(u) ==
    /\ ~panicked
    /\ users[u] = "close"
    /\ IF stopClosed["main"]
       THEN /\ panicked' = TRUE
            /\ UNCHANGED <<stopClosed, users>>
       ELSE /\ stopClosed' = [stopClosed EXCEPT !["main"] = TRUE]
            /\ users' = [users EXCEPT ![u] = "wait"]
            /\ UNCHANGED panicked
    /\ UNCHANGED <<store, ttl, pending, running, tickerOn, wg, waiters,
                   loops, lifecycleCalls>>
    /\ LifecycleFrame

\* Stop: b.wg.Wait(), b.ticker.Stop(), return.
StopWaitBy(u) ==
    /\ ~panicked
    /\ users[u] = "wait"
    /\ wg["main"] = 0
    /\ tickerOn' = [tickerOn EXCEPT !["main"] = FALSE]
    /\ users' = [users EXCEPT ![u] = "idle"]
    /\ UNCHANGED <<store, ttl, pending, running, stopClosed, wg, waiters,
                   panicked, loops, lifecycleCalls>>
    /\ LifecycleFrame

\* flush of flushLoop goroutine w, under b.mu: return on an empty pending
\* map, where the goroutine goes on at next; else swap the map and execute
\* the batch at busy.
LoopSwap(w, next, busy) ==
    IF PendingKeys(pending["main"]) = {}
    THEN /\ loops' = [loops EXCEPT ![w].pc = next]
         /\ wg' = IF next = "exited" THEN [wg EXCEPT !["main"] = @ - 1] ELSE wg
         /\ UNCHANGED pending
    ELSE /\ loops' = [loops EXCEPT ![w] = [pc |-> busy, toFlush |-> pending["main"]]]
         /\ pending' = [pending EXCEPT !["main"] = EmptyPending]
         /\ UNCHANGED wg

\* flushLoop, case <-b.ticker.C
LoopTick(w) ==
    /\ ~panicked
    /\ loops[w].pc = "select"
    /\ tickerOn["main"]
    /\ LoopSwap(w, "select", "flush")
    /\ UNCHANGED <<store, ttl, running, stopClosed, tickerOn, waiters,
                   panicked, users, lifecycleCalls>>
    /\ LifecycleFrame

\* flushLoop, case <-b.stopChan
LoopStopSignal(w) ==
    /\ ~panicked
    /\ loops[w].pc = "select"
    /\ stopClosed["main"]
    /\ LoopSwap(w, "exited", "final")
    /\ UNCHANGED <<store, ttl, running, stopClosed, tickerOn, waiters,
                   panicked, users, lifecycleCalls>>
    /\ LifecycleFrame

\* flush of flushLoop goroutine w, after the swap.
LoopFlushExec(w) ==
    /\ ~panicked
    /\ loops[w].pc \in {"flush", "final"}
    /\ FlushBatch("main", loops[w].toFlush)
    /\ loops' = [loops EXCEPT ![w].pc =
           IF loops[w].pc = "final" THEN "exited" ELSE "select"]
    /\ wg' = IF loops[w].pc = "final" THEN [wg EXCEPT !["main"] = @ - 1] ELSE wg
    /\ UNCHANGED <<pending, running, stopClosed, tickerOn, panicked, users,
                   lifecycleCalls>>
    /\ LifecycleFrame

\* State after NewFixedRateLimitCacheImpl: hotKeyBatcher has been started
\* once; one store that is not a cluster.
InitStartStop ==
    /\ isCluster = [c \in Clients |-> FALSE]
    /\ perSecondClient = FALSE
    /\ store = [c \in Clients |-> [k \in Keys |-> 0]]
    /\ ttl = [c \in Clients |-> [k \in Keys |-> 0]]
    /\ pending = [c \in Clients |-> EmptyPending]
    /\ running = [c \in Clients |-> c = "main"]
    /\ stopClosed = [c \in Clients |-> FALSE]
    /\ tickerOn = [c \in Clients |-> c = "main"]
    /\ wg = [c \in Clients |-> IF c = "main" THEN 1 ELSE 0]
    /\ worker = [c \in Clients |-> [pc |-> "none", toFlush |-> EmptyPending]]
    /\ waiters = <<>>
    /\ caller = Idle
    /\ panicked = FALSE
    /\ bmu = [c \in Clients |-> Unlocked]
    /\ loops = <<[pc |-> "select", toFlush |-> EmptyPending]>>
    /\ users = [u \in Users |-> "idle"]
    /\ lifecycleCalls = 0
    /\ stopCacheKeyIncrementWhenOverlimit = FALSE
    /\ ExpirationJitterMaxSeconds = 0
    /\ shadowMode = FALSE
    /\ localCache = {}
    /\ reqs = <<>>
    /\ InitDetector

NextStartStop ==
    \/ \E u \in Users : StartBy(u)
    \/ \E u \in Users : StartGo(u)
    \/ \E u \in Users : StopBy(u)
    \/ \E u \in Users : StopCloseBy(u)
    \/ \E u \in Users : StopWaitBy(u)
    \/ \E w \in 1..Len(loops) : LoopTick(w)
    \/ \E w \in 1..Len(loops) : LoopStopSignal(w)
    \/ \E w \in 1..Len(loops) : LoopFlushExec(w)
    \/ \E key \in Keys, hitsAddend \in Addends :
          SubmitCall("main", key, hitsAddend, UnitToDivider(key))

SpecStartStop == InitStartStop /\ [][NextStartStop]_vars

\* ------------------------------------------------------------------------
\* Start and Stop of hotKeyBatcher called one after the other by one
\* goroutine, with Submit calls in between.
\* ------------------------------------------------------------------------
InitLifecycle == InitBLive /\ ~isCluster["main"] /\ ~perSecondClient

NextLifecycle ==
    \/ Start("main")
    \/ Stop("main")
    \/ StopCloseChan
    \/ StopWait
    \/ StopReturn
    \/ Tick("main")
    \/ StopSignal("main")
    \/ FlushExec("main")
    \/ \E key \in Keys, hitsAddend \in Addends :
          SubmitCall("main", key, hitsAddend, UnitToDivider(key))

SpecLifecycle == InitLifecycle /\ [][NextLifecycle]_vars

\* ------------------------------------------------------------------------
\* One batcher whose callers pass Submit any expiration.
\* ------------------------------------------------------------------------
Expirations == {-1, 2, 60}

SubmitWithExpiration ==
    \E key \in Keys, hitsAddend \in Addends, expirationSeconds \in Expirations :
        SubmitCall("main", key, hitsAddend, expirationSeconds)

InitSubmit == InitBLive /\ ~isCluster["main"] /\ ~perSecondClient

NextSubmit ==
    \/ SubmitWithExpiration
    \/ Tick("main")
    \/ FlushExec("main")

SpecSubmit == InitSubmit /\ [][NextSubmit]_vars

\* ------------------------------------------------------------------------
\* DoLimit
\* ------------------------------------------------------------------------
\* The requests: one descriptor per counter key.
DescriptorLists == {<<"k1">>, <<"k1", "k2">>}

\* hits_addend of a request that does not set it: 1 for every descriptor.
DefaultHits(descs) == [i \in 1..Len(descs) |-> 1]

\* utils.GetHitsAddends(request)
hitsAddends(request) == request.hits

\* requests_per_unit of the rule behind the key
Limit(key) == IF key = "k1" THEN 1 ELSE 3

\* limits[i].ShadowMode of the rule behind the key
ShadowMode(key) == key = "k1" /\ shadowMode

Slots == {0} \cup {ClusterSlot(k) : k \in Keys}

NoPipelines == [c \in Clients |-> [slot \in Slots |-> <<>>]]

NonEmpty(pipes) == {cs \in Clients \X Slots : pipes[cs[1]][cs[2]] # <<>>}

\* A command whose reply is bound to results[dst] or currentCount[dst].
CmdTo(op, key, arg, dst) == [op |-> op, key |-> key, arg |-> arg, dst |-> dst]

\* An error of a store round trip and where it came from: the pre-read
\* ("GET"), a slot pipeline of the increment phase ("INCRBY") or a batcher
\* result ("batch").
Failure(err, op, c, slot) == [Err |-> err, op |-> op, c |-> c, slot |-> slot]

NoFailure == Failure(NoErr, "", "main", 0)

\* Outcome of a DoLimit call: the verdicts it returns, or the error
\* checkError panics with.
Returned(statuses) == [err |-> NoFailure, statuses |-> statuses]

Panicked(failure) == [err |-> failure, statuses |-> <<>>]

\* Mutant: one pipeline per client, whatever the slot of the key.
PipelineIndexSingle(c, key) == 0

\* The entry of the slot -> pipeline map a key's commands are appended to.
PipelineIndex(c, key) == GetSlot(c, key)

IsOverLimitWithLocalCache(key) == key \in localCache

\* Near limit: the count after the increase reaches half of the limit.
IsOverLimitThresholdReached(key, limitAfterIncrease) ==
    limitAfterIncrease * 2 >= Limit(key)

\* Mutant: hitsAddend 0 is taken for "not set" and counted as 1.
getHitsAddendAtLeastOne(hitsAddend, isCacheKeyOverlimit, isCacheKeyNearlimit, isNearLimt) ==
    LET hits == IF hitsAddend = 0 THEN 1 ELSE hitsAddend
    IN IF ~stopCacheKeyIncrementWhenOverlimit THEN hits
       ELSE IF isCacheKeyOverlimit THEN 0
       ELSE IF ~isCacheKeyNearlimit THEN hits
       ELSE IF isNearLimt THEN hits
       ELSE 0

\* Mutant: the near-limit test comes before the over-limit test.
getHitsAddendNearFirst(hitsAddend, isCacheKeyOverlimit, isCacheKeyNearlimit, isNearLimt) ==
    IF ~stopCacheKeyIncrementWhenOverlimit THEN hitsAddend
    ELSE IF isCacheKeyNearlimit /\ isNearLimt THEN hitsAddend
    ELSE IF isCacheKeyOverlimit THEN 0
    ELSE IF ~isCacheKeyNearlimit THEN hitsAddend
    ELSE 0

getHitsAddend(hitsAddend, isCacheKeyOverlimit, isCacheKeyNearlimit, isNearLimt) ==
    IF ~stopCacheKeyIncrementWhenOverlimit THEN hitsAddend
    ELSE IF isCacheKeyOverlimit THEN 0
    ELSE IF ~isCacheKeyNearlimit THEN hitsAddend
    ELSE IF isNearLimt THEN hitsAddend
    ELSE 0

\* Mutant: only the key of the last descriptor is read.
RECURSIVE PipelinesToGetLast(_, _, _)
PipelinesToGetLast(descs, i, pipes) ==
    IF i > Len(descs) THEN pipes
    ELSE LET key  == descs[i]
             c    == ClientOf(key)
             slot == PipelineIndex(c, key)
         IN PipelinesToGetLast(descs, i + 1,
                IF key = NoKey \/ i < Len(descs) THEN pipes
                ELSE [pipes EXCEPT ![c][slot] = Append(@, CmdTo("GET", key, 0, i))])

\* The GET pipelines of the pre-read, grouped by client and slot; empty
\* keys are skipped.
RECURSIVE PipelinesToGet(_, _, _)
PipelinesToGet(descs, i, pipes) ==
    IF i > Len(descs) THEN pipes
    ELSE LET key  == descs[i]
             c    == ClientOf(key)
             slot == PipelineIndex(c, key)
         IN PipelinesToGet(descs, i + 1,
                IF key = NoKey THEN pipes
                ELSE [pipes EXCEPT ![c][slot] = Append(@, CmdTo("GET", key, 0, i))])

\* The descriptors whose GET is in pipeline p.
Destinations(p) == [j \in 1..Len(p) |-> p[j].dst]

\* The replies of pipeline p written through the commands' result pointers.
RECURSIVE Bind(_, _, _)
Bind(p, res, into) ==
    IF p = <<>> THEN into
    ELSE Bind(Tail(p), Tail(res),
              IF Head(p).dst = 0 THEN into
              ELSE [into EXCEPT ![Head(p).dst] = Head(res)])

\* DoLimit is called: the local cache is asked about every key; under the
\* stop policy, when no key is over the limit there, the GET pipelines of
\* the pre-read are built.
Begin(descs, hits) ==
    /\ ~panicked
    /\ Len(reqs) < MaxReqs
    /\ LET n    == Len(descs)
           over == [i \in 1..n |-> IsOverLimitWithLocalCache(descs[i])]
           isCacheKeyOverlimit == \E i \in 1..n : over[i]
           pre  == stopCacheKeyIncrementWhenOverlimit /\ ~isCacheKeyOverlimit
       IN reqs' = Append(reqs,
            [descs |-> descs,
             hits |-> hits,
             earlier |-> {r \in 1..Len(reqs) : reqs[r].pc = "done"},
             pc |-> IF pre THEN "preread" ELSE "incr",
             i |-> 1,
             isOverLimitWithLocalCache |-> over,
             currentCount |-> [i \in 1..n |-> 0],
             nearlimitIndexes |-> [i \in 1..n |-> FALSE],
             pipelinesToGet |-> IF pre THEN PipelinesToGet(descs, 1, NoPipelines)
                                ELSE NoPipelines,
             pipelines |-> NoPipelines,
             hitsAddend |-> [i \in 1..n |-> 0],
             hotKeyResultChans |-> [i \in 1..n |-> 0],
             results |-> [i \in 1..n |-> 0],
             pipelineErr |-> NoFailure,
             recorded |-> <<>>,
             received |-> {},
             cancelled |-> FALSE,
             remaining |-> <<>>,
             limitBeforeIncrease |-> <<>>,
             got |-> <<>>,
             out |-> Returned(<<>>)])
    /\ UNCHANGED <<bvars, cvars, localCache,
                   dvars, lvars>>

\* Pre-read: PipeDo of one GET pipeline, those of this.client first; an
\* error ends the call in checkError.  After the last pipeline the keys
\* near their limit are marked.
PreRead(r) ==
    /\ ~panicked
    /\ reqs[r].pc = "preread"
    /\ LET q    == reqs[r]
           todo == NonEmpty(q.pipelinesToGet)
       IN \E cs \in todo :
            /\ cs[1] = "main" \/ \A other \in todo : other[1] # "main"
            /\ LET c == cs[1]
                   p == q.pipelinesToGet[c][cs[2]]
               IN \E err \in PipeDoErrors(c, p) :
                    IF err # NoErr
                    THEN reqs' = [reqs EXCEPT ![r].pc = "done",
                                      ![r].got = @ \o Destinations(p),
                                      ![r].out = Panicked(Failure(err, "GET", c, cs[2]))]
                    ELSE LET counts == Bind(p, ExecPipeline(p, store[c], ttl[c]).res,
                                            q.currentCount)
                             near   == [i \in 1..Len(q.descs) |->
                                          /\ q.descs[i] # NoKey
                                          /\ IsOverLimitThresholdReached(q.descs[i],
                                                counts[i] + hitsAddends(q)[i])]
                             last   == todo = {cs}
                         IN reqs' = [reqs EXCEPT
                               ![r].currentCount = counts,
                               ![r].got = @ \o Destinations(p),
                               ![r].pipelinesToGet[c][cs[2]] = <<>>,
                               ![r].nearlimitIndexes = IF last THEN near ELSE @,
                               ![r].pc = IF last THEN "incr" ELSE @]
    /\ UNCHANGED <<bvars, cvars, localCache,
                   dvars, lvars>>

\* Indexes of the descriptors whose batcher result is still to be received.
Awaited(q) ==
    {i \in 1..Len(q.descs) : q.hotKeyResultChans[i] # 0 /\ i \notin q.received}

\* The status of one descriptor: over the limit when the local cache said
\* so or when the count after the increase exceeds the limit; a rule in
\* shadow mode reports OK all the same.
GetResponseDescriptorStatus(key, limitAfterIncrease, isOverLimitWithLocalCache) ==
    IF /\ key # NoKey
       /\ isOverLimitWithLocalCache \/ limitAfterIncrease > Limit(key)
       /\ ~ShadowMode(key)
    THEN "OVER_LIMIT" ELSE "OK"

\* limitRemaining of the status of one descriptor: 0 when the local cache
\* had the key over the limit, else what is left of the limit.
LimitRemaining(key, limitAfterIncrease, isOverLimitWithLocalCache) ==
    IF key = NoKey \/ isOverLimitWithLocalCache \/ limitAfterIncrease > Limit(key) THEN 0
    ELSE Limit(key) - limitAfterIncrease

\* Mutant: the verdict loop forgets what the local cache said.
DescriptorStatusNoLocalCache(q, i) ==
    GetResponseDescriptorStatus(q.descs[i], q.results[i], FALSE)

\* The verdict loop, descriptor i: limitAfterIncrease is results[i].
DescriptorStatus(q, i) ==
    GetResponseDescriptorStatus(q.descs[i], q.results[i],
                                q.isOverLimitWithLocalCache[i])

\* The keys GetResponseDescriptorStatus puts into the local cache.
NewlyOverLimit(q) ==
    {q.descs[i] : i \in {x \in 1..Len(q.descs) :
                           /\ q.descs[x] # NoKey
                           /\ ~q.isOverLimitWithLocalCache[x]
                           /\ q.results[x] > Limit(q.descs[x])}}

\* The width of the unsigned counts of DoLimit, scaled down from 64 bits.
UintBits == 6

\* limitAfterIncrease - hitsAddends[i] in unsigned arithmetic.
SubUint(a, b) == (a - b) % (2 ^ UintBits)

\* Every awaited batcher result is in: one status per descriptor.
Collect(q) ==
    IF q.pc = "recv" /\ Awaited(q) = {}
    THEN [q EXCEPT
            !.pc = "done",
            !.limitBeforeIncrease =
                [i \in 1..Len(q.descs) |->
                    SubUint(q.results[i], hitsAddends(q)[i])],
            !.remaining = [i \in 1..Len(q.descs) |->
                             LimitRemaining(q.descs[i], q.results[i],
                                            q.isOverLimitWithLocalCache[i])],
            !.out = Returned([i \in 1..Len(q.descs) |-> DescriptorStatus(q, i)])]
    ELSE q

\* The part of DoLimit that follows wg.Wait(): nothing while a goroutine
\* still runs; then checkError of the recorded error, or the wait for the
\* batcher results.
Settle(q) ==
    IF q.pc = "tasks" /\ NonEmpty(q.pipelines) = {}
    THEN IF q.pipelineErr # NoFailure
         THEN [q EXCEPT !.pc = "done", !.out = Panicked(q.pipelineErr)]
         ELSE Collect([q EXCEPT !.pc = "recv"])
    ELSE Collect(q)

\* The local cache after the step that took a call from before to after.
LocalCacheAfter(before, after) ==
    IF before.pc # "done" /\ after.pc = "done" /\ after.out.err = NoFailure
    THEN localCache \cup NewlyOverLimit(after)
    ELSE localCache

\* Mutant: no descriptor is skipped by the increment loop.
overlimitIndexesNone(q) == [i \in 1..Len(q.descs) |-> FALSE]

\* Mutant: the jitter replaces the unit.
ExpirationOfJitter(key, jitter) == jitter

\* expirationSeconds := utils.UnitToDivider(limits[i].Limit.Unit), plus
\* JitterRand.Int63n(ExpirationJitterMaxSeconds) when that is positive.
ExpirationOf(key, jitter) == UnitToDivider(key) + jitter

\* Mutant: the EXPIRE is left out.
pipelineAppendIncrOnly(pipeline, key, hitsAddend, result, expirationSeconds) ==
    Append(pipeline, CmdTo("INCRBY", key, hitsAddend, result))

\* pipelineAppend: INCRBY key hitsAddend with its reply bound to result,
\* then EXPIRE key expirationSeconds with no result pointer.
pipelineAppend(pipeline, key, hitsAddend, result, expirationSeconds) ==
    pipeline \o <<CmdTo("INCRBY", key, hitsAddend, result),
                  CmdTo("EXPIRE", key, expirationSeconds, 0)>>

\* overlimitIndexes: set together with isOverLimitWithLocalCache.
overlimitIndexes(q) == q.isOverLimitWithLocalCache

\* Increment loop, descriptor i: skipped when its key is empty or the local
\* cache has its key over the limit; a key RecordAccess reports hot goes to the batcher of
\* its client, any other into the pipeline of its client and slot.
Incr(r) ==
    /\ ~panicked
    /\ reqs[r].pc = "incr"
    /\ LET q    == reqs[r]
           i    == q.i
           n    == Len(q.descs)
           key  == q.descs[i]
           c    == ClientOf(key)
           isCacheKeyOverlimit == \E x \in 1..n : q.isOverLimitWithLocalCache[x]
           isCacheKeyNearlimit == \E x \in 1..n : q.nearlimitIndexes[x]
           hitsAddend == getHitsAddend(hitsAddends(q)[i], isCacheKeyOverlimit,
                                       isCacheKeyNearlimit, q.nearlimitIndexes[i])
           next == [q EXCEPT !.i = i + 1,
                             !.pc = IF i = n THEN "tasks" ELSE @]
       IN IF key = NoKey \/ overlimitIndexes(q)[i]
          THEN /\ reqs' = [reqs EXCEPT ![r] = Settle(next)]
               /\ localCache' = LocalCacheAfter(q, Settle(next))
               /\ UNCHANGED <<waiters, pending>>
          ELSE \E RecordAccess \in BOOLEAN, jitter \in Jitters :
                 LET expirationSeconds == ExpirationOf(key, jitter)
                 IN IF RecordAccess
                    THEN /\ Submit(c, key, hitsAddend, expirationSeconds)
                         /\ reqs' = [reqs EXCEPT ![r] = Settle(
                               [next EXCEPT !.hitsAddend[i] = hitsAddend,
                                            !.hotKeyResultChans[i] = Len(waiters) + 1])]
                         /\ UNCHANGED localCache
                    ELSE /\ reqs' = [reqs EXCEPT ![r] =
                               [next EXCEPT
                                  !.hitsAddend[i] = hitsAddend,
                                  !.pipelines[c][PipelineIndex(c, key)] =
                                      pipelineAppend(@, key, hitsAddend, i,
                                                     expirationSeconds)]]
                         /\ UNCHANGED <<waiters, pending, localCache>>
    /\ UNCHANGED <<isCluster, perSecondClient, store, ttl, running,
                   stopClosed, tickerOn, wg, worker, caller, panicked,
                   cvars, dvars, lvars>>

\* Mutant: a later error overwrites pipelineErr.
RecordErrorLast(pipelineErr, failure) == failure

\* Under errMutex: only the first error is kept.
RecordError(pipelineErr, failure) ==
    IF pipelineErr = NoFailure THEN failure ELSE pipelineErr

\* One of the goroutines of the parallel execution: PipeDo of its pipeline,
\* then wg.Done().
Task(r) ==
    /\ ~panicked
    /\ reqs[r].pc = "tasks"
    /\ LET q == reqs[r]
       IN \E cs \in NonEmpty(q.pipelines) :
            LET c == cs[1]
                p == q.pipelines[c][cs[2]]
            IN \E err \in PipeDoErrors(c, p) :
                 IF err # NoErr
                 THEN LET after == Settle(
                              [q EXCEPT
                                 !.pipelines[c][cs[2]] = <<>>,
                                 !.pipelineErr =
                                     RecordError(@, Failure(err, "INCRBY", c, cs[2])),
                                 !.recorded = Append(@, Failure(err, "INCRBY", c, cs[2]))])
                      IN /\ reqs' = [reqs EXCEPT ![r] = after]
                         /\ localCache' = LocalCacheAfter(q, after)
                         /\ UNCHANGED <<store, ttl>>
                 ELSE LET done  == ExecPipeline(p, store[c], ttl[c])
                          after == Settle(
                              [q EXCEPT
                                 !.pipelines[c][cs[2]] = <<>>,
                                 !.results = Bind(p, done.res, @)])
                      IN /\ store' = [store EXCEPT ![c] = done.st]
                         /\ ttl' = [ttl EXCEPT ![c] = done.tt]
                         /\ reqs' = [reqs EXCEPT ![r] = after]
                         /\ localCache' = LocalCacheAfter(q, after)
    /\ UNCHANGED <<isCluster, perSecondClient, pending, running, stopClosed,
                   tickerOn, wg, worker, waiters, caller, panicked,
                   cvars, dvars, lvars>>

\* batchResult := <-resultChan of one hot key, checkError of its error.
Recv(r) ==
    /\ ~panicked
    /\ reqs[r].pc = "recv"
    /\ \E i \in Awaited(reqs[r]) :
         LET id == reqs[r].hotKeyResultChans[i]
         IN /\ waiters[id].chan # <<>>
            /\ LET batchResult == Head(waiters[id].chan)
                   q     == reqs[r]
                   after ==
                     IF batchResult.Err # NoErr
                     THEN [q EXCEPT
                             !.pc = "done",
                             !.received = @ \cup {i},
                             !.out = Panicked(Failure(batchResult.Err, "batch",
                                                      waiters[id].client, 0))]
                     ELSE Settle([q EXCEPT
                                    !.received = @ \cup {i},
                                    !.results[i] = batchResult.Value])
               IN /\ reqs' = [reqs EXCEPT ![r] = after]
                  /\ localCache' = LocalCacheAfter(q, after)
            /\ waiters' = [waiters EXCEPT ![id].chan = Tail(@)]
    /\ UNCHANGED <<isCluster, perSecondClient, store, ttl, pending, running,
                   stopClosed, tickerOn, wg, worker, caller, panicked,
                   cvars, dvars, lvars>>

\* The caller cancels ctx while DoLimit waits for its pipelines or for the
\* batcher.
Cancel(r) ==
    /\ ~panicked
    /\ reqs[r].pc \in {"tasks", "recv"}
    /\ ~reqs[r].cancelled
    /\ reqs' = [reqs EXCEPT ![r].cancelled = TRUE]
    /\ UNCHANGED <<bvars, cvars, localCache,
                   dvars, lvars>>

\* State after NewFixedRateLimitCacheImpl at the start of a window.
Init ==
    /\ isCluster \in {[c \in Clients |-> b] : b \in BOOLEAN}
    /\ perSecondClient \in BOOLEAN
    /\ store = [c \in Clients |-> [k \in Keys |-> 0]]
    /\ ttl = [c \in Clients |-> [k \in Keys |-> 0]]
    /\ InitStarted
    /\ stopCacheKeyIncrementWhenOverlimit \in BOOLEAN
    /\ ExpirationJitterMaxSeconds = 0
    /\ shadowMode \in BOOLEAN
    /\ localCache = {}
    /\ reqs = <<>>
    /\ InitDetector

Next ==
    \/ \E descs \in DescriptorLists : Begin(descs, DefaultHits(descs))
    \/ \E r \in 1..Len(reqs) : PreRead(r)
    \/ \E r \in 1..Len(reqs) : Incr(r)
    \/ \E r \in 1..Len(reqs) : Task(r)
    \/ \E r \in 1..Len(reqs) : Recv(r)
    \/ \E c \in Clients : Tick(c)
    \/ \E c \in Clients : FlushExec(c)

Spec == Init /\ [][Next]_vars

\* The configured jitter maxima.
JitterMaxima == {0, 2}

\* DoLimit calls on one non-cluster client, with and without jitter.
InitJitter ==
    /\ isCluster = [c \in Clients |-> FALSE]
    /\ perSecondClient = FALSE
    /\ store = [c \in Clients |-> [k \in Keys |-> 0]]
    /\ ttl = [c \in Clients |-> [k \in Keys |-> 0]]
    /\ InitStarted
    /\ stopCacheKeyIncrementWhenOverlimit \in BOOLEAN
    /\ ExpirationJitterMaxSeconds \in JitterMaxima
    /\ shadowMode = FALSE
    /\ localCache = {}
    /\ reqs = <<>>
    /\ InitDetector

SpecJitter == InitJitter /\ [][Next]_vars

\* DoLimit calls whose callers may cancel ctx.
NextCancel ==
    \/ Next
    \/ \E r \in 1..Len(reqs) : Cancel(r)

\* One store that is not a cluster.
InitCancel == Init /\ ~isCluster["main"] /\ ~perSecondClient /\ ~shadowMode

SpecCancel == InitCancel /\ [][NextCancel]_vars

\* ------------------------------------------------------------------------
\* DoLimit calls whose requests set hits_addend per descriptor, on one
\* store that is not a cluster, with a local cache that can lose entries.
\* ------------------------------------------------------------------------
Requests ==
    {[descs |-> <<"k1">>, hits |-> <<h>>] : h \in Addends}
    \cup {[descs |-> <<"k1", "k2">>, hits |-> <<1, 1>>],
          [descs |-> <<"k1", "k2">>, hits |-> <<0, 2>>]}

\* The local cache drops the entry of a key (its TTL ran out or the cache
\* needed the room).
Evict(key) ==
    /\ ~panicked
    /\ key \in localCache
    /\ localCache' = localCache \ {key}
    /\ UNCHANGED <<bvars, cvars, reqs,
                   dvars, lvars>>

InitHits == Init /\ ~isCluster["main"] /\ ~perSecondClient

NextHits ==
    \/ \E request \in Requests : Begin(request.descs, request.hits)
    \/ \E r \in 1..Len(reqs) : PreRead(r)
    \/ \E r \in 1..Len(reqs) : Incr(r)
    \/ \E r \in 1..Len(reqs) : Task(r)
    \/ \E r \in 1..Len(reqs) : Recv(r)
    \/ \E c \in Clients : Tick(c)
    \/ \E c \in Clients : FlushExec(c)
    \/ \E key \in Keys : Evict(key)

SpecHits == InitHits /\ [][NextHits]_vars

\* ------------------------------------------------------------------------
\* DoLimit calls for requests with a descriptor that has no rule, on one
\* main store, cluster or not.
\* ------------------------------------------------------------------------
RequestsWithEmptyKey ==
    {[descs |-> <<"k1", "k2">>, hits |-> <<2, 1>>],
     [descs |-> <<NoKey, "k2">>, hits |-> <<1, 2>>]}

InitPreRead == Init /\ ~perSecondClient /\ ~shadowMode

NextPreRead ==
    \/ \E request \in RequestsWithEmptyKey : Begin(request.descs, request.hits)
    \/ \E r \in 1..Len(reqs) : PreRead(r)
    \/ \E r \in 1..Len(reqs) : Incr(r)
    \/ \E r \in 1..Len(reqs) : Task(r)
    \/ \E r \in 1..Len(reqs) : Recv(r)
    \/ \E c \in Clients : Tick(c)
    \/ \E c \in Clients : FlushExec(c)

SpecPreRead == InitPreRead /\ [][NextPreRead]_vars

\* ------------------------------------------------------------------------
\* getHitsAddend on its own: called with every combination of arguments.
\* ------------------------------------------------------------------------
MaxCalls == 2

CallGetHitsAddend(hitsAddend, isCacheKeyOverlimit, isCacheKeyNearlimit, isNearLimt) ==
    /\ Len(calls) < MaxCalls
    /\ calls' = Append(calls,
          [hitsAddend |-> hitsAddend,
           isCacheKeyOverlimit |-> isCacheKeyOverlimit,
           isCacheKeyNearlimit |-> isCacheKeyNearlimit,
           isNearLimt |-> isNearLimt,
           ret |-> getHitsAddend(hitsAddend, isCacheKeyOverlimit,
                                 isCacheKeyNearlimit, isNearLimt)])
    /\ UNCHANGED <<bvars, evars, counters, hotKeys, hotKeysList, decayDue,
                   mu, gor, accesses, trueCount, pristine, maxHotKeys,
                   recency, interval, lvars>>

InitGetHitsAddend == Init /\ ~isCluster["main"] /\ ~perSecondClient /\ ~shadowMode

NextGetHitsAddend ==
    \E hitsAddend \in Addends, over \in BOOLEAN, near \in BOOLEAN, isNear \in BOOLEAN :
        CallGetHitsAddend(hitsAddend, over, near, isNear)

SpecGetHitsAddend == InitGetHitsAddend /\ [][NextGetHitsAddend]_vars

\* ------------------------------------------------------------------------
\* CountMinSketch
\* ------------------------------------------------------------------------
MaxAccesses == 3

\* delta of RecordAccessWithDelta
Deltas == {5}

\* hash(key, seeds[row]): k1 and k2 share a cell of the first row, k2 and
\* k3 one of the second.
hash(key, row) ==
    IF row = 1 THEN (IF key = "k3" THEN 1 ELSE 0)
    ELSE (IF key = "k1" THEN 0 ELSE 1)

\* Mutant: the sum is not capped.
IncrementCellWraps(v, delta) == (v + delta) % (2^CounterBits)

\* Increment, one cell: newVal is the sum in the width of the counter; a
\* sum below the old value has overflowed and is capped at the maximum.
IncrementCell(v, delta) ==
    LET newVal == (v + delta) % (2^CounterBits)
    IN IF newVal < v THEN CounterMax ELSE newVal

\* Increment, the loop over the rows from row on: the key's cell of the row
\* gets the new value, minCount follows the new values.
RECURSIVE IncrementFrom(_, _, _, _, _)
IncrementFrom(cs, key, delta, row, minCount) ==
    IF row > depth THEN [counters |-> cs, minCount |-> minCount]
    ELSE LET idx == hash(key, row)
             newVal == IncrementCell(cs[row][idx], delta)
         IN IncrementFrom([cs EXCEPT ![row][idx] = newVal], key, delta,
                          row + 1,
                          IF newVal < minCount THEN newVal ELSE minCount)

\* Mutant: only the first row is counted.
CmsIncrementFirstRow(cs, key, delta) ==
    [cs EXCEPT ![1][hash(key, 1)] = IncrementCell(@, delta)]

\* Increment: the counters after delta was added to the key's cell of
\* every row.
CmsIncrement(cs, key, delta) ==
    IncrementFrom(cs, key, delta, 1, CounterMax).counters

\* Estimate: the minimum over the rows, starting from 0xFFFFFFFF.
RECURSIVE EstimateFrom(_, _, _, _)
EstimateFrom(cs, key, row, minCount) ==
    IF row > depth THEN minCount
    ELSE LET count == cs[row][hash(key, row)]
         IN EstimateFrom(cs, key, row + 1,
                         IF count < minCount THEN count ELSE minCount)

Estimate(cs, key) == EstimateFrom(cs, key, 1, CounterMax)

\* Decay with decayFactor 0.5: uint32(float64(counter) * 0.5)
CmsDecay(cs) == [row \in Rows |-> [idx \in Cells |-> cs[row][idx] \div 2]]

CmsReset(cs) == [row \in Rows |-> [idx \in Cells |-> 0]]

\* ------------------------------------------------------------------------
\* HotKeyDetector: every goroutine is in one RecordAccess call at a time;
\* d.mu and the lock of the sketch make each step below atomic.
\* ------------------------------------------------------------------------
DetectorFrame == UNCHANGED <<bvars, evars, calls, lvars, maxHotKeys>>

Return(g, ret) == [gor EXCEPT ![g].pc = "idle", ![g].ret = ret]

\* RecordAccess / RecordAccessWithDelta are called; maybeDecay reads
\* lastDecayTime under the read lock.
Access(g, key, delta) ==
    /\ gor[g].pc = "idle"
    /\ accesses < MaxAccesses
    /\ mu = NoOne
    /\ accesses' = accesses + 1
    /\ gor' = [gor EXCEPT ![g] =
          [IdleGoroutine EXCEPT
             !.pc = IF decayDue THEN "decayLock" ELSE "increment",
             !.key = key, !.delta = delta, !.hotAtCall = hotKeys]]
    /\ UNCHANGED <<interval, counters, hotKeys, hotKeysList, decayDue, mu, trueCount,
                   pristine, recency>>
    /\ DetectorFrame

RecordAccess(g, key) == Access(g, key, 1)

RecordAccessWithDelta(g, key, delta) == Access(g, key, delta)

\* Mutant: the write lock is taken on what was read under the read lock.
DoubleCheckStale == TRUE

\* maybeDecay, the double check after acquiring the write lock:
\* time.Since(d.lastDecayTime) >= d.decayInterval
DoubleCheck == decayDue

\* maybeDecay under the write lock: the double check, lastDecayTime = now.
maybeDecay(g) ==
    /\ gor[g].pc = "decayLock"
    /\ mu = NoOne
    /\ IF DoubleCheck
       THEN /\ decayDue' = FALSE
            /\ interval' = [interval EXCEPT !.decays = @ + 1]
            /\ gor' = [gor EXCEPT ![g].pc = "decay"]
       ELSE /\ gor' = [gor EXCEPT ![g].pc = "increment"]
            /\ UNCHANGED <<decayDue, interval>>
    /\ UNCHANGED <<counters, hotKeys, hotKeysList, mu, accesses, trueCount,
                   pristine, recency>>
    /\ DetectorFrame

\* d.cms.Decay(d.decayFactor)
Decay(g) ==
    /\ gor[g].pc = "decay"
    /\ counters' = CmsDecay(counters)
    /\ pristine' = FALSE
    /\ trueCount' = [k \in DetectorKeys |-> 0]
    /\ gor' = [gor EXCEPT ![g].pc = "cleanup"]
    /\ UNCHANGED <<interval, hotKeys, hotKeysList, decayDue, mu, accesses, recency>>
    /\ DetectorFrame

\* The entries of the sequence that are in the set, in their order.
Among(seq, set) == SelectSeq(seq, LAMBDA k : k \in set)

\* The hot keys keys, by the time of their last call that returned true,
\* after such a call for the key.
Used(seq, keys, key) ==
    IF key \in keys
    THEN Append(Among(seq, keys \ {key}), key)
    ELSE Among(seq, keys)

\* Mutant: a key at the threshold is cold.
StaysHotAbove(cs, key) == Estimate(cs, key) > hotThreshold

\* cleanupColdKeys: d.cms.Estimate(key) >= d.hotThreshold
StaysHot(cs, key) == Estimate(cs, key) >= hotThreshold

\* cleanupColdKeys takes d.mu for writing.
cleanupLock(g) ==
    /\ gor[g].pc = "cleanup"
    /\ mu = NoOne
    /\ mu' = g
    /\ gor' = [gor EXCEPT ![g].pc = "cleanupLoop", ![g].i = 1,
                          ![g].newList = <<>>]
    /\ UNCHANGED <<interval, counters, hotKeys, hotKeysList, decayDue, accesses,
                   trueCount, pristine, recency>>
    /\ DetectorFrame

\* cleanupColdKeys, one turn of the loop over hotKeysList: the key stays
\* when its estimate is still at the threshold; after the last key the
\* new list replaces the old one and d.mu is released.
cleanupColdKeys(g) ==
    /\ gor[g].pc = "cleanupLoop"
    /\ mu = g
    /\ IF gor[g].i > Len(hotKeysList)
       THEN /\ hotKeysList' = gor[g].newList
            /\ mu' = NoOne
            /\ gor' = [gor EXCEPT ![g].pc = "increment", ![g].newList = <<>>,
                                  ![g].i = 0]
            /\ UNCHANGED <<hotKeys, recency>>
       ELSE LET key == hotKeysList[gor[g].i]
            IN /\ IF StaysHot(counters, key)
                  THEN /\ gor' = [gor EXCEPT ![g].i = @ + 1,
                                             ![g].newList = Append(@, key)]
                       /\ UNCHANGED <<hotKeys, recency>>
                  ELSE /\ gor' = [gor EXCEPT ![g].i = @ + 1]
                       /\ hotKeys' = hotKeys \ {key}
                       /\ recency' = Among(recency, hotKeys \ {key})
               /\ UNCHANGED <<hotKeysList, mu>>
    /\ UNCHANGED <<interval, counters, decayDue, accesses, trueCount, pristine>>
    /\ DetectorFrame

\* count := d.cms.Increment(key, delta)
Increment(g) ==
    /\ gor[g].pc = "increment"
    /\ LET cs == CmsIncrement(counters, gor[g].key, gor[g].delta)
           count == IncrementFrom(counters, gor[g].key, gor[g].delta, 1,
                                  CounterMax).minCount
       IN /\ counters' = cs
          /\ gor' = [gor EXCEPT ![g].pc = "isHot",
                                ![g].count = count,
                                ![g].hotAtIncrement = hotKeys]
    /\ trueCount' = IF pristine
                    THEN [trueCount EXCEPT ![gor[g].key] = @ + gor[g].delta]
                    ELSE trueCount
    /\ UNCHANGED <<interval, hotKeys, hotKeysList, decayDue, mu, accesses, pristine,
                   recency>>
    /\ DetectorFrame

\* Mutant: a key becomes hot only above the threshold.
ShouldBecomeHotAbove(count) == count > hotThreshold

\* count >= d.hotThreshold
ShouldBecomeHot(count) == count >= hotThreshold

\* Mutant: the lookup misses every key.
IsHotKeyNever(key) == FALSE

\* isHot: the lookup in d.hotKeys.
IsHotKey(key) == key \in hotKeys

\* d.isHot(key) under the read lock, and the branch on its answer.
isHot(g) ==
    /\ gor[g].pc = "isHot"
    /\ mu = NoOne
    /\ LET next == IF IsHotKey(gor[g].key) THEN [gor EXCEPT ![g].pc = "touch"]
                   ELSE IF ShouldBecomeHot(gor[g].count)
                        THEN [gor EXCEPT ![g].pc = "promote"]
                        ELSE Return(g, FALSE)
       IN gor' = [next EXCEPT ![g].wasHot = gor[g].key \in hotKeys]
    /\ UNCHANGED <<interval, counters, hotKeys, hotKeysList, decayDue, mu, accesses,
                   trueCount, pristine, recency>>
    /\ DetectorFrame

\* The list without the first occurrence of the key.
RECURSIVE RemoveFirst(_, _)
RemoveFirst(list, key) ==
    IF list = <<>> THEN <<>>
    ELSE IF Head(list) = key THEN Tail(list)
    ELSE <<Head(list)>> \o RemoveFirst(Tail(list), key)

\* touchHotKey: the key moves to the end of the LRU list; return true.
touchHotKey(g) ==
    /\ gor[g].pc = "touch"
    /\ mu = NoOne
    /\ hotKeysList' = Append(RemoveFirst(hotKeysList, gor[g].key), gor[g].key)
    /\ gor' = Return(g, TRUE)
    /\ recency' = Used(recency, hotKeys, gor[g].key)
    /\ UNCHANGED <<interval, counters, hotKeys, decayDue, mu, accesses, trueCount,
                   pristine>>
    /\ DetectorFrame

\* Mutant: nothing is evicted.
EvictLRUNever(list, keys) == [list |-> list, keys |-> keys]

\* promoteToHot, the eviction loop: while the list is at capacity its first
\* key leaves the list and the set.
RECURSIVE EvictLRU(_, _)
EvictLRU(list, keys) ==
    IF Len(list) >= maxHotKeys
    THEN EvictLRU(Tail(list), keys \ {Head(list)})
    ELSE [list |-> list, keys |-> keys]

\* promoteToHot: nothing when the key is hot by now; else evict, then add
\* the key to the set and to the end of the list; return true.
promoteToHot(g) ==
    /\ gor[g].pc = "promote"
    /\ mu = NoOne
    /\ IF gor[g].key \in hotKeys
       THEN UNCHANGED <<hotKeys, hotKeysList>>
       ELSE LET room == EvictLRU(hotKeysList, hotKeys)
            IN /\ hotKeys' = room.keys \cup {gor[g].key}
               /\ hotKeysList' = Append(room.list, gor[g].key)
    /\ recency' = Used(recency, hotKeys', gor[g].key)
    /\ gor' = Return(g, TRUE)
    /\ UNCHANGED <<interval, counters, decayDue, mu, accesses, trueCount, pristine>>
    /\ DetectorFrame

\* Reset, called by a goroutine that is in no other call; under d.mu the
\* sketch is zeroed and the hot keys are forgotten.
Reset(g) ==
    /\ gor[g].pc = "idle"
    /\ mu = NoOne
    /\ counters' = CmsReset(counters)
    /\ hotKeys' = {}
    /\ hotKeysList' = <<>>
    /\ decayDue' = FALSE
    /\ pristine' = FALSE
    /\ trueCount' = [k \in DetectorKeys |-> 0]
    /\ recency' = <<>>
    /\ interval' = [interval EXCEPT !.reset = TRUE]
    /\ UNCHANGED <<mu, gor, accesses>>
    /\ DetectorFrame

\* decayInterval has passed since lastDecayTime.
Tock ==
    /\ ~decayDue
    /\ decayDue' = TRUE
    /\ interval' = [decays |-> 0, reset |-> FALSE]
    /\ UNCHANGED <<counters, hotKeys, hotKeysList, mu, gor, accesses,
                   trueCount, pristine, recency>>
    /\ DetectorFrame

InitD ==
    /\ Init
    /\ ~isCluster["main"] /\ ~perSecondClient
    /\ ~stopCacheKeyIncrementWhenOverlimit /\ ~shadowMode

\* The steps of the goroutines gs.
NextOf(gs) ==
    \/ \E g \in gs, key \in Keys : RecordAccess(g, key)
    \/ \E g \in gs, key \in Keys, delta \in Deltas :
          RecordAccessWithDelta(g, key, delta)
    \/ \E g \in gs : maybeDecay(g)
    \/ \E g \in gs : Decay(g)
    \/ \E g \in gs : cleanupLock(g)
    \/ \E g \in gs : cleanupColdKeys(g)
    \/ \E g \in gs : Increment(g)
    \/ \E g \in gs : isHot(g)
    \/ \E g \in gs : touchHotKey(g)
    \/ \E g \in gs : promoteToHot(g)
    \/ \E g \in gs : Reset(g)
    \/ Tock

\* Concurrent callers.
NextD == NextOf(Goroutines)

SpecD == InitD /\ [][NextD]_vars

\* One caller: the calls do not overlap.
NextDSeq == NextOf({"g1"})

SpecDSeq == InitD /\ [][NextDSeq]_vars

\* The orders in which the keys of a set can be given.
Orders(keys) ==
    {order \in [1..Cardinality(keys) -> keys] :
        \A i, j \in 1..Cardinality(keys) : order[i] = order[j] => i = j}

\* The sketch after Increment(key, 5) for the keys of the order.
RECURSIVE CountAll(_, _)
CountAll(cs, order) ==
    IF order = <<>> THEN cs
    ELSE CountAll(CmsIncrement(cs, Head(order), 5), Tail(order))

\* A detector of maxHotKeys = max after RecordAccessWithDelta(key, 5) for
\* the keys of the order, one call after the other: all of them are hot.
InitHot(order, max) ==
    /\ isCluster = [c \in Clients |-> FALSE]
    /\ perSecondClient = FALSE
    /\ store = [c \in Clients |-> [k \in Keys |-> 0]]
    /\ ttl = [c \in Clients |-> [k \in Keys |-> 0]]
    /\ InitStarted
    /\ stopCacheKeyIncrementWhenOverlimit = FALSE
    /\ ExpirationJitterMaxSeconds = 0
    /\ shadowMode = FALSE
    /\ localCache = {}
    /\ reqs = <<>>
    /\ calls = <<>>
    /\ counters = CountAll([row \in Rows |-> [idx \in Cells |-> 0]], order)
    /\ hotKeysList = order
    /\ recency = order
    /\ hotKeys = {order[i] : i \in 1..Len(order)}
    /\ decayDue = FALSE
    /\ mu = NoOne
    /\ gor = [g \in Goroutines |-> IdleGoroutine]
    /\ accesses = 0
    /\ trueCount = [k \in DetectorKeys |->
                       IF \E i \in 1..Len(order) : order[i] = k THEN 5 ELSE 0]
    /\ pristine = TRUE
    /\ maxHotKeys = max
    /\ interval = [decays |-> 0, reset |-> FALSE]

\* k1 and k2 are hot, the detector holds two hot keys at most.
InitLRU == \E order \in Orders(Keys) : InitHot(order, 2)

\* Concurrent RecordAccess and RecordAccessWithDelta calls for three keys,
\* no decay in between.
NextLRU ==
    \/ \E g \in Goroutines, key \in DetectorKeys : RecordAccess(g, key)
    \/ \E g \in Goroutines, key \in DetectorKeys, delta \in Deltas :
          RecordAccessWithDelta(g, key, delta)
    \/ \E g \in Goroutines : Increment(g)
    \/ \E g \in Goroutines : isHot(g)
    \/ \E g \in Goroutines : touchHotKey(g)
    \/ \E g \in Goroutines : promoteToHot(g)

SpecLRU == InitLRU /\ [][NextLRU]_vars

\* k1, k2 and k3 are hot, the detector holds three hot keys at most.
InitCleanup == \E order \in Orders(DetectorKeys) : InitHot(order, 3)

\* Concurrent RecordAccess and RecordAccessWithDelta calls for three keys
\* while decayInterval runs out.
NextCleanup ==
    \/ \E g \in Goroutines, key \in DetectorKeys : RecordAccess(g, key)
    \/ \E g \in Goroutines, key \in DetectorKeys, delta \in Deltas :
          RecordAccessWithDelta(g, key, delta)
    \/ \E g \in Goroutines : maybeDecay(g)
    \/ \E g \in Goroutines : Decay(g)
    \/ \E g \in Goroutines : cleanupLock(g)
    \/ \E g \in Goroutines : cleanupColdKeys(g)
    \/ \E g \in Goroutines : Increment(g)
    \/ \E g \in Goroutines : isHot(g)
    \/ \E g \in Goroutines : touchHotKey(g)
    \/ \E g \in Goroutines : promoteToHot(g)
    \/ Tock

SpecCleanup == InitCleanup /\ [][NextCleanup]_vars

\* ------------------------------------------------------------------------
\* CountMinSketch.Increment called on its own
\* ------------------------------------------------------------------------
\* The values of a cell and of delta: the whole range of the counter.
CellValues == 0..CounterMax

\* cms.Increment(key, delta), with the sketch before and after the call
\* and the value returned.
CallIncrement(key, delta) ==
    /\ Len(calls) < MaxCalls
    /\ LET inc == IncrementFrom(counters, key, delta, 1, CounterMax)
       IN /\ counters' = inc.counters
          /\ calls' = Append(calls,
                [key |-> key, delta |-> delta, before |-> counters,
                 after |-> inc.counters, ret |-> inc.minCount])
    /\ UNCHANGED <<bvars, evars, hotKeys, hotKeysList, decayDue, mu, gor,
                   accesses, trueCount, pristine, maxHotKeys, recency,
                   interval, lvars>>

\* A sketch after Increment(k1, v) and Increment(k3, v): every cell holds v.
InitSketch ==
    /\ isCluster = [c \in Clients |-> FALSE]
    /\ perSecondClient = FALSE
    /\ store = [c \in Clients |-> [k \in Keys |-> 0]]
    /\ ttl = [c \in Clients |-> [k \in Keys |-> 0]]
    /\ InitStarted
    /\ stopCacheKeyIncrementWhenOverlimit = FALSE
    /\ ExpirationJitterMaxSeconds = 0
    /\ shadowMode = FALSE
    /\ localCache = {}
    /\ reqs = <<>>
    /\ calls = <<>>
    /\ \E v \in CellValues :
          LET zero == [row \in Rows |-> [idx \in Cells |-> 0]]
          IN counters = IncrementFrom(
                 IncrementFrom(zero, "k1", v, 1, CounterMax).counters,
                 "k3", v, 1, CounterMax).counters
    /\ hotKeys = {}
    /\ hotKeysList = <<>>
    /\ recency = <<>>
    /\ decayDue = FALSE
    /\ mu = NoOne
    /\ gor = [g \in Goroutines |-> IdleGoroutine]
    /\ accesses = 0
    /\ trueCount = [k \in DetectorKeys |-> 0]
    /\ pristine = TRUE
    /\ maxHotKeys = 1
    /\ interval = [decays |-> 0, reset |-> FALSE]

NextSketch ==
    \E key \in DetectorKeys, delta \in CellValues : CallIncrement(key, delta)

SpecSketch == InitSketch /\ [][NextSketch]_vars

\* ------------------------------------------------------------------------
\* Properties of the batcher
\* ------------------------------------------------------------------------
\* A step in which the worker of batcher c ends a flush.
FlushEnds(c) ==
    /\ worker[c].pc \in {"flush", "final"}
    /\ worker'[c].pc \in {"select", "exited"}

RECURSIVE PrefixSum(_, _)
PrefixSum(ws, i) ==
    IF i = 0 THEN 0 ELSE PrefixSum(ws, i - 1) + waiters[ws[i]].hitsAddend

Delivered(id) == Len(waiters) >= id /\ waiters[id].sent # <<>>

\* C1: in every successful flush, waiter i of a key (in Submit order) is
\* sent v + a_0 + ... + a_i, where v is the key's counter before the
\* batch's INCRBY; the last waiter is sent the count the store returned.
C1_PerWaiterResults ==
    [][\A c \in Clients : FlushEnds(c) =>
         \A k \in PendingKeys(worker[c].toFlush) :
            LET ws == worker[c].toFlush[k].waiters
            IN \A i \in 1..Len(ws) :
                 LET res == waiters'[ws[i]].sent
                 IN /\ res # <<>>
                    /\ res[1].Err = NoErr =>
                         /\ res[1].Value = store[c][k] + PrefixSum(ws, i)
                         /\ i = Len(ws) => res[1].Value = store'[c][k]]_vars

\* A flush has served two waiters of one key whose counter was not zero,
\* the second with a positive addend.
C1_Witness ==
    \E c \in Clients, k \in Keys :
        LET ws == worker[c].toFlush[k].waiters
        IN /\ worker[c].pc = "select"
           /\ Len(ws) >= 2
           /\ waiters[ws[2]].hitsAddend > 0
           /\ Delivered(ws[1]) /\ Delivered(ws[2])
           /\ waiters[ws[1]].sent[1].Err = NoErr
           /\ waiters[ws[1]].sent[1].Value > waiters[ws[1]].hitsAddend
           /\ waiters[ws[2]].sent[1].Value
                = waiters[ws[1]].sent[1].Value + waiters[ws[2]].hitsAddend

\* C5: the pipeline a flush executes holds keys of one slot only.
C5_FlushPipelineOneSlot ==
    \A c \in Clients :
        worker[c].pc \in {"flush", "final"} =>
            Cardinality(PipelineSlots(c, FlushPipeline(worker[c].toFlush))) <= 1

\* C7: when Stop of a running batcher returns, its worker has exited, its
\* pending map is empty and every waiter submitted to it before Stop was
\* called has been sent its result.
C7_StopDrains ==
    [][(caller.pc = "wait" /\ caller'.pc = "stopped") =>
          LET c == caller.c
          IN /\ worker'[c].pc = "exited"
             /\ PendingKeys(pending'[c]) = {}
             /\ \A id \in 1..caller.mark :
                   waiters'[id].client = c => waiters'[id].sent # <<>>]_vars

\* C8: when the pipeline of a flush fails, every waiter of the batch is sent
\* that one error and nothing else, the batch is not put back into the
\* pending map and the worker leaves the flush.
C8_FlushErrorToAll ==
    [][\A c \in Clients :
         (/\ FlushEnds(c)
          /\ \E id \in FlushWaiters(worker[c].toFlush) :
                \E n \in 1..Len(waiters'[id].sent) :
                    waiters'[id].sent[n].Err # NoErr)
         => /\ \E e \in {IOErr, CrossSlotErr} :
                  \A id \in FlushWaiters(worker[c].toFlush) :
                      waiters'[id].sent = <<Error(e)>>
            /\ pending'[c] = pending[c]
            /\ store'[c] = store[c]]_vars

\* A failed flush has told the error to both waiters of its batch.
C8_Witness ==
    \E c \in Clients :
        /\ worker[c].pc = "select"
        /\ Cardinality(FlushWaiters(worker[c].toFlush)) >= 2
        /\ \A id \in FlushWaiters(worker[c].toFlush) :
              waiters[id].sent = <<Error(IOErr)>>

\* C6: while the worker runs, every waiter created by Submit is eventually
\* sent exactly one result and its channel is closed; none is sent two.
C6_EveryWaiterServedOnce ==
    /\ [](\A id \in 1..Len(waiters) :
             /\ Len(waiters[id].sent) <= 1
             /\ waiters[id].closed <=> waiters[id].sent # <<>>)
    /\ \A id \in 1..MaxSubmits :
          (Len(waiters) >= id) ~> (Delivered(id) /\ waiters[id].closed)

\* Two waiters of one batch have both been served.
C6_Witness ==
    \E c \in Clients :
        /\ worker[c].pc = "select"
        /\ Cardinality(FlushWaiters(worker[c].toFlush)) >= 2
        /\ \A id \in FlushWaiters(worker[c].toFlush) :
              Len(waiters[id].sent) = 1 /\ waiters[id].closed

\* The positions of the commands op of the key in pipeline p.
Positions(p, op, key) == {i \in 1..Len(p) : p[i].op = op /\ p[i].key = key}

\* The waiters of batcher c for the key that have been sent no result.
Unserved(c, key) ==
    {id \in 1..Len(waiters) :
        /\ waiters[id].client = c /\ waiters[id].key = key
        /\ waiters[id].sent = <<>>}

Members(ws) == {ws[i] : i \in 1..Len(ws)}

\* C21: a flush sends, for every key that had a waiter when it swapped the
\* pending map, one INCRBY of the sum of the addends of the waiters submitted
\* for the key since the previous swap, followed by the one EXPIRE of the
\* key, and nothing for any other key; when the pipeline succeeds the
\* counter of the key grows by that sum.
C21_OneIncrByPerKey ==
    [][\A c \in Clients : FlushEnds(c) =>
         LET toFlush == worker[c].toFlush
             p       == FlushPipeline(toFlush)
         IN \A k \in Keys :
              LET ws      == toFlush[k].waiters
                  incrs   == Positions(p, "INCRBY", k)
                  expires == Positions(p, "EXPIRE", k)
              IN IF ws # <<>>
                 THEN /\ Cardinality(incrs) = 1
                      /\ Cardinality(expires) = 1
                      /\ \A i \in incrs :
                            /\ p[i].arg = PrefixSum(ws, Len(ws))
                            /\ i + 1 \in expires
                      /\ Members(ws) = Unserved(c, k) \ Members(pending[c][k].waiters)
                      /\ waiters'[ws[1]].sent[1].Err = NoErr
                            => store'[c][k] = store[c][k] + PrefixSum(ws, Len(ws))
                 ELSE incrs = {} /\ expires = {}]_vars

\* Two submits for k1, of 1 and of 2 hits, fell into one flush window: the
\* flush has served both and the counter has grown by 3.
C21_Witness ==
    \E c \in Clients :
        LET ws == worker[c].toFlush["k1"].waiters
        IN /\ worker[c].pc = "select"
           /\ Len(ws) = 2
           /\ waiters[ws[1]].hitsAddend = 1 /\ waiters[ws[2]].hitsAddend = 2
           /\ waiters[ws[2]].sent = <<Value(store[c]["k1"])>>
           /\ store[c]["k1"] \in {3, 8}

\* The largest expirationSeconds the Submit calls of the waiters ws passed.
MaxExpiration(ws) ==
    CHOOSE e \in {waiters[id].expirationSeconds : id \in Members(ws)} :
        \A id \in Members(ws) : waiters[id].expirationSeconds <= e

\* C22: every entry of a pending map has at least one waiter, its totalHits
\* is the sum of the addends of its waiters and its expirationSeconds is the
\* largest expiration passed to the Submit calls that built it.
C22_PendingEntryInvariant ==
    \A c \in Clients : \A k \in PendingKeys(pending[c]) :
        LET agg == pending[c][k]
        IN /\ Len(agg.waiters) >= 1
           /\ agg.totalHits = PrefixSum(agg.waiters, Len(agg.waiters))
           /\ agg.expirationSeconds = MaxExpiration(agg.waiters)

\* The entry of k1 was built by a Submit of 1 hit with expiration 60 and a
\* later one of 2 hits with expiration 2.
C22_Witness ==
    LET agg == pending["main"]["k1"]
    IN /\ agg.exists
       /\ Len(agg.waiters) = 2
       /\ waiters[agg.waiters[1]].expirationSeconds = 60
       /\ waiters[agg.waiters[2]].expirationSeconds = 2
       /\ agg.expirationSeconds = 60
       /\ agg.totalHits = 3

\* A step in which Submit adds a waiter to batcher c.
Submits(c) ==
    /\ Len(waiters') = Len(waiters) + 1
    /\ waiters'[Len(waiters')].client = c

\* A Submit made while a flush of its batcher is in flight goes into the
\* fresh pending map and leaves the batch in flight as it was.
SubmitGoesToNextBatch ==
    \A c \in Clients :
        (Submits(c) /\ worker[c].pc \in {"flush", "final"}) =>
            LET id == Len(waiters')
            IN /\ worker'[c] = worker[c]
               /\ id \notin FlushWaiters(worker[c].toFlush)
               /\ id \in Members(pending'[c][waiters'[id].key].waiters)

\* C23: a Submit made after the swap of a flush is not part of the batch in
\* flight but of the next one, no waiter is part of two flushes, and every
\* submitted waiter is eventually part of one flush.
C23_EveryAddendFlushedOnce ==
    /\ [][SubmitGoesToNextBatch]_vars
    /\ [](\A id \in 1..Len(waiters) : Len(waiters[id].sent) <= 1)
    /\ \A id \in 1..MaxSubmits :
          (Len(waiters) >= id) ~> (Delivered(id) /\ Len(waiters[id].sent) = 1)

\* The worker of batcher c is in the store round trip of a flush or
\* delivers its results.
InFlushIO(c) == worker[c].pc \in {"flush", "final"}

\* C24: the flush worker does not hold b.mu while it executes the pipeline
\* or delivers results; during that time a Submit gets b.mu as soon as no
\* other Submit holds it and a Submit that holds b.mu completes; whoever
\* holds b.mu can release it, so Submit and flush never wait for each other
\* for ever.
C24_NoLockAcrossIO ==
    \A c \in Clients :
        /\ InFlushIO(c) => bmu[c].by # "flush"
        /\ (InFlushIO(c) /\ bmu[c].by = "none" /\ Len(waiters) < MaxSubmits)
              => ENABLED SubmitLock(c, "k1", 1, 60)
        /\ bmu[c].by = "Submit" => ENABLED SubmitUnlock(c)
        /\ bmu[c].by = "flush" => ENABLED flushUnlock(c)

\* While the pipeline of a flush for k1 is in flight, a Submit for k1 holds
\* b.mu.
C24_Witness ==
    /\ InFlushIO("main")
    /\ worker["main"].toFlush["k1"].exists
    /\ bmu["main"].by = "Submit"
    /\ bmu["main"].key = "k1"

\* The flushLoop goroutines that are inside flush, after its swap.
Flushing == {w \in 1..Len(loops) : loops[w].pc \in {"flush", "final"}}

\* C25: at any time hotKeyBatcher has at most one flushLoop goroutine that
\* has not returned, and at most one execution of flush is under way,
\* whatever the interleaving of concurrent Start and Stop calls.
C25_SingleFlushWorker ==
    /\ Cardinality(LiveLoops) <= 1
    /\ Cardinality(Flushing) <= 1

\* ------------------------------------------------------------------------
\* Properties of DoLimit
\* ------------------------------------------------------------------------
Done(r) == reqs[r].pc = "done"

Succeeded(r) == Done(r) /\ reqs[r].out.err = NoFailure

Min(a, b) == IF a < b THEN a ELSE b

\* The calls that were answered OK for their first descriptor.
AnsweredOK == {r \in 1..Len(reqs) : Succeeded(r) /\ reqs[r].out.statuses[1] = "OK"}

\* C2 (as stated): when N calls, each for the one key k1 with hitsAddend 1,
\* have all returned without a store error, exactly min(N, limit) of them
\* were answered OK and the others OVER_LIMIT.
C2_ExactlyLimitOK ==
    (\A r \in 1..Len(reqs) : Succeeded(r) /\ reqs[r].descs = <<"k1">>)
    => /\ Cardinality(AnsweredOK) = Min(Len(reqs), Limit("k1"))
       /\ \A r \in 1..Len(reqs) :
             r \notin AnsweredOK => reqs[r].out.statuses = <<"OVER_LIMIT">>

\* C2 (amended): the same, for a key whose rule is not in shadow mode.
C2_ExactlyLimitOKUnlessShadow ==
    (/\ ~ShadowMode("k1")
     /\ \A r \in 1..Len(reqs) : Succeeded(r) /\ reqs[r].descs = <<"k1">>)
    => /\ Cardinality(AnsweredOK) = Min(Len(reqs), Limit("k1"))
       /\ \A r \in 1..Len(reqs) :
             r \notin AnsweredOK => reqs[r].out.statuses = <<"OVER_LIMIT">>

\* Two calls for k1 have returned, one counted through the batcher and one
\* through a slot pipeline; one is OK and one OVER_LIMIT.
C2_Witness ==
    /\ ~ShadowMode("k1")
    /\ Len(reqs) = 2
    /\ \A r \in 1..2 : Succeeded(r) /\ reqs[r].descs = <<"k1">>
    /\ \E r \in 1..2 : reqs[r].hotKeyResultChans[1] # 0
    /\ \E r \in 1..2 : /\ reqs[r].hotKeyResultChans[1] = 0
                       /\ ~reqs[r].isOverLimitWithLocalCache[1]
    /\ Cardinality(AnsweredOK) = 1

\* The effective hits DoLimit call q has issued for key k, on descriptors
\* 1..i.
RECURSIVE IssuedBy(_, _, _)
IssuedBy(q, k, i) ==
    IF i = 0 THEN 0
    ELSE IssuedBy(q, k, i - 1)
         + (IF q.descs[i] = k /\ i < q.i THEN q.hitsAddend[i] ELSE 0)

RECURSIVE Issued(_, _)
Issued(k, r) ==
    IF r = 0 THEN 0
    ELSE Issued(k, r - 1) + IssuedBy(reqs[r], k, Len(reqs[r].descs))

Flushed(c) == PendingKeys(pending[c]) = {} /\ worker[c].pc \notin {"flush", "final"}

\* C3: when every DoLimit call has returned, every batch has been flushed
\* and no store round trip has failed, the counter of every key is the sum
\* of the effective hits issued for it.
C3_CounterIsSumOfHits ==
    (/\ \A r \in 1..Len(reqs) : Succeeded(r)
     /\ \A c \in Clients : Flushed(c))
    => \A k \in Keys : store[ClientOf(k)][k] = Issued(k, Len(reqs))

\* k1 was counted once through the batcher and once through a slot
\* pipeline, and holds 2.
C3_Witness ==
    /\ Len(reqs) = 2
    /\ \A r \in 1..2 : Succeeded(r)
    /\ \A c \in Clients : Flushed(c)
    /\ reqs[1].hotKeyResultChans[1] # 0
    /\ reqs[2].hotKeyResultChans[1] = 0
    /\ reqs[1].hitsAddend[1] = 1 /\ reqs[2].hitsAddend[1] = 1
    /\ store["main"]["k1"] = 2

BatchFailed(q) ==
    \E i \in 1..Len(q.descs) :
        /\ q.hotKeyResultChans[i] # 0
        /\ waiters[q.hotKeyResultChans[i]].sent # <<>>
        /\ waiters[q.hotKeyResultChans[i]].sent[1].Err # NoErr

\* A DoLimit call that is past wg.Wait().
PastWait(r) ==
    \/ reqs[r].pc = "recv"
    \/ Done(r) /\ reqs[r].out.err.op # "GET"

\* C9 (as stated): DoLimit inspects the outcome of the slot pipelines only
\* when every task has finished; it then fails with the error recorded
\* first and without statuses when a task failed, and returns one status
\* per descriptor when none failed.
C9_StatusesUnlessTaskFailed ==
    \A r \in 1..Len(reqs) :
        PastWait(r) =>
            /\ NonEmpty(reqs[r].pipelines) = {}
            /\ Done(r) =>
                 IF reqs[r].recorded # <<>>
                 THEN reqs[r].out = Panicked(reqs[r].recorded[1])
                 ELSE /\ reqs[r].out.err = NoFailure
                      /\ Len(reqs[r].out.statuses) = Len(reqs[r].descs)

\* C9 (amended): as above, but when no task failed DoLimit returns one
\* status per descriptor only if no batcher result it waits for is an
\* error; otherwise it fails with that error and without statuses.
C9_FirstTaskErrorElseStatuses ==
    \A r \in 1..Len(reqs) :
        PastWait(r) =>
            /\ NonEmpty(reqs[r].pipelines) = {}
            /\ Done(r) =>
                 IF reqs[r].recorded # <<>>
                 THEN reqs[r].out = Panicked(reqs[r].recorded[1])
                 ELSE IF BatchFailed(reqs[r])
                 THEN /\ reqs[r].out.err.op = "batch"
                      /\ reqs[r].out.err.Err # NoErr
                      /\ reqs[r].out.statuses = <<>>
                 ELSE /\ reqs[r].out.err = NoFailure
                      /\ Len(reqs[r].out.statuses) = Len(reqs[r].descs)

\* Both slot pipelines of a call have failed and the call has ended with
\* the error of the one that failed first.
C9_Witness ==
    \E r \in 1..Len(reqs) :
        /\ Done(r)
        /\ Len(reqs[r].recorded) = 2
        /\ reqs[r].recorded[1] # reqs[r].recorded[2]
        /\ reqs[r].out = Panicked(reqs[r].recorded[1])

CancelledErr == "context canceled"

\* C10: a DoLimit call whose ctx was cancelled while it waited for its slot
\* pipelines or for a batcher result ends with the cancellation error and
\* without statuses.
C10_CancelEndsWait ==
    \A r \in 1..Len(reqs) :
        (Done(r) /\ reqs[r].cancelled) =>
            /\ reqs[r].out.err.Err = CancelledErr
            /\ reqs[r].out.statuses = <<>>

\* ------------------------------------------------------------------------
\* Properties of getHitsAddend
\* ------------------------------------------------------------------------
\* C13: getHitsAddend returns hitsAddend when the policy is disabled;
\* otherwise 0 when any key is locally over-limit; otherwise hitsAddend when
\* no key is near-limit; otherwise hitsAddend if this key is near-limit and
\* 0 if it is not.
C13_HitsAddendTable ==
    \A n \in 1..Len(calls) :
        LET call == calls[n]
            on   == stopCacheKeyIncrementWhenOverlimit
        IN /\ ~on => call.ret = call.hitsAddend
           /\ (on /\ call.isCacheKeyOverlimit) => call.ret = 0
           /\ (on /\ ~call.isCacheKeyOverlimit /\ ~call.isCacheKeyNearlimit)
                 => call.ret = call.hitsAddend
           /\ (on /\ ~call.isCacheKeyOverlimit /\ call.isCacheKeyNearlimit
                  /\ call.isNearLimt) => call.ret = call.hitsAddend
           /\ (on /\ ~call.isCacheKeyOverlimit /\ call.isCacheKeyNearlimit
                  /\ ~call.isNearLimt) => call.ret = 0

\* Under the policy, one call for a key that is near its limit and one for
\* a key that is not, while some key is: the first keeps its hits, the
\* second gets 0.
C13_Witness ==
    /\ stopCacheKeyIncrementWhenOverlimit
    /\ Len(calls) = 2
    /\ \A n \in 1..2 : /\ calls[n].hitsAddend = 2
                       /\ ~calls[n].isCacheKeyOverlimit
                       /\ calls[n].isCacheKeyNearlimit
    /\ calls[1].isNearLimt /\ calls[1].ret = 2
    /\ ~calls[2].isNearLimt /\ calls[2].ret = 0

\* ------------------------------------------------------------------------
\* Properties of DoLimit: the local cache, the stop policy, shadow mode
\* ------------------------------------------------------------------------
\* The descriptors of call q the increment loop has dealt with.
Handled(q) == {i \in 1..Len(q.descs) : i < q.i}

\* Call q holds a store command for the key of descriptor i, or has
\* submitted the descriptor to a batcher.
HasIO(q, i) ==
    \/ q.hotKeyResultChans[i] # 0
    \/ \E c \in Clients, slot \in Slots :
          \/ q.descs[i] \in PipelineKeys(q.pipelinesToGet[c][slot])
          \/ q.descs[i] \in PipelineKeys(q.pipelines[c][slot])

AnsweredOverLimit(r, i) ==
    Succeeded(r) /\ reqs[r].out.statuses[i] = "OVER_LIMIT"

\* C11: when a call has answered OVER_LIMIT for a key whose rule is not in
\* shadow mode, every call made after it returned and answered for the same
\* key answers OVER_LIMIT too: from the local cache without store I/O for
\* the key, or from the store with a count above the limit, whether the
\* count came from a slot pipeline or from the batcher.
C11_OverLimitSticks ==
    \A r2 \in 1..Len(reqs) : \A r1 \in reqs[r2].earlier :
        \A i1 \in 1..Len(reqs[r1].descs), i2 \in 1..Len(reqs[r2].descs) :
            (/\ reqs[r1].descs[i1] = reqs[r2].descs[i2]
             /\ ~ShadowMode(reqs[r1].descs[i1])
             /\ AnsweredOverLimit(r1, i1)
             /\ Succeeded(r2))
            => /\ AnsweredOverLimit(r2, i2)
               /\ IF reqs[r2].isOverLimitWithLocalCache[i2]
                  THEN ~HasIO(reqs[r2], i2) /\ reqs[r2].results[i2] = 0
                  ELSE reqs[r2].results[i2] > Limit(reqs[r2].descs[i2])

\* k1 was answered OVER_LIMIT, then dropped by the local cache; a later call
\* counted it through the batcher and answered OVER_LIMIT again.
C11_Witness ==
    /\ ~ShadowMode("k1")
    /\ Len(reqs) = 2
    /\ 1 \in reqs[2].earlier
    /\ AnsweredOverLimit(1, 1) /\ AnsweredOverLimit(2, 1)
    /\ ~reqs[2].isOverLimitWithLocalCache[1]
    /\ reqs[2].hotKeyResultChans[1] # 0

\* C12: a call for a key the local cache reports over the limit issues no
\* GET, INCRBY or EXPIRE for the key and does not submit it to a batcher;
\* when the rule is not in shadow mode it answers OVER_LIMIT with
\* remaining 0.
C12_LocalCacheHitNoIO ==
    \A r \in 1..Len(reqs) : \A i \in 1..Len(reqs[r].descs) :
        reqs[r].isOverLimitWithLocalCache[i] =>
            /\ ~HasIO(reqs[r], i)
            /\ (Succeeded(r) /\ ~ShadowMode(reqs[r].descs[i])) =>
                  /\ reqs[r].out.statuses[i] = "OVER_LIMIT"
                  /\ reqs[r].remaining[i] = 0

\* A call for k1 and k2 found k1 in the local cache: it counted k2 in the
\* store and answered OVER_LIMIT with remaining 0 for k1.
C12_Witness ==
    \E r \in 1..Len(reqs) :
        /\ Succeeded(r)
        /\ reqs[r].descs = <<"k1", "k2">>
        /\ reqs[r].isOverLimitWithLocalCache = <<TRUE, FALSE>>
        /\ reqs[r].out.statuses = <<"OVER_LIMIT", "OK">>
        /\ reqs[r].remaining[1] = 0
        /\ reqs[r].results[2] > 0

\* C14: under the stop policy, when the pre-read has found a descriptor of
\* the call near its limit, the increment phase holds store commands and
\* batcher submits for the near-limit keys only.
C14_WritesOnlyNearLimit ==
    \A r \in 1..Len(reqs) :
        (/\ stopCacheKeyIncrementWhenOverlimit
         /\ \E x \in 1..Len(reqs[r].descs) : reqs[r].nearlimitIndexes[x])
        => \A i \in Handled(reqs[r]) :
              ~reqs[r].nearlimitIndexes[i] =>
                  /\ reqs[r].hotKeyResultChans[i] = 0
                  /\ \A c \in Clients, slot \in Slots :
                        reqs[r].descs[i] \notin PipelineKeys(reqs[r].pipelines[c][slot])

\* The effective hits call q has issued for key k on descriptors 1..i whose
\* request asked for more than 0 hits.
RECURSIVE IssuedPositiveBy(_, _, _)
IssuedPositiveBy(q, k, i) ==
    IF i = 0 THEN 0
    ELSE IssuedPositiveBy(q, k, i - 1)
         + (IF q.descs[i] = k /\ i < q.i /\ q.hits[i] > 0
            THEN q.hitsAddend[i] ELSE 0)

RECURSIVE IssuedPositive(_, _)
IssuedPositive(k, r) ==
    IF r = 0 THEN 0
    ELSE IssuedPositive(k, r - 1)
         + IssuedPositiveBy(reqs[r], k, Len(reqs[r].descs))

\* C15: a descriptor with hitsAddend 0 adds nothing to its counter (the
\* counter is the sum of the hits of the other descriptors), it is answered
\* from the count it read, and the local cache, which a call with
\* hitsAddend 0 may fill, holds only keys whose count is above the limit,
\* so that no later verdict differs.
C15_ZeroHitsNoEffect ==
    /\ \A r \in 1..Len(reqs) : \A i \in 1..Len(reqs[r].descs) :
          reqs[r].hits[i] = 0 =>
             /\ reqs[r].hitsAddend[i] = 0
             /\ (Succeeded(r) /\ ~reqs[r].isOverLimitWithLocalCache[i]) =>
                   LET k == reqs[r].descs[i]
                   IN /\ reqs[r].results[i] <= store[ClientOf(k)][k]
                      /\ reqs[r].remaining[i]
                           = IF reqs[r].results[i] > Limit(k) THEN 0
                             ELSE Limit(k) - reqs[r].results[i]
    /\ \A k \in localCache : store[ClientOf(k)][k] > Limit(k)
    /\ ((\A r \in 1..Len(reqs) : Succeeded(r)) /\ (\A c \in Clients : Flushed(c)))
         => \A k \in Keys : store[ClientOf(k)][k] = IssuedPositive(k, Len(reqs))

\* A call for k1 with hitsAddend 0 was told remaining 1, the whole limit;
\* the call after it, with hitsAddend 1, was answered OK with remaining 0.
C15_Witness ==
    /\ Len(reqs) = 2
    /\ \A r \in 1..2 : Succeeded(r) /\ reqs[r].descs = <<"k1">>
    /\ 1 \in reqs[2].earlier
    /\ reqs[1].hits = <<0>> /\ reqs[1].remaining = <<1>>
    /\ reqs[2].hits = <<1>> /\ reqs[2].out.statuses = <<"OK">>
    /\ reqs[2].remaining = <<0>>
    /\ store["main"]["k1"] = 1

\* C16: with the stop policy disabled, every descriptor of a rule in shadow
\* mode is counted with its hitsAddend, whatever the local cache holds, and
\* is never answered OVER_LIMIT.
C16_ShadowAlwaysIncrements ==
    ~stopCacheKeyIncrementWhenOverlimit =>
        \A r \in 1..Len(reqs) : \A i \in Handled(reqs[r]) :
            ShadowMode(reqs[r].descs[i]) =>
                /\ reqs[r].hitsAddend[i] = reqs[r].hits[i]
                /\ Succeeded(r) => reqs[r].out.statuses[i] # "OVER_LIMIT"

\* The condition of the pre-read for call q.
PreReadDue(q) ==
    /\ stopCacheKeyIncrementWhenOverlimit
    /\ \A i \in 1..Len(q.descs) : ~q.isOverLimitWithLocalCache[i]

\* The GETs call q has sent, followed by those it is still to send.
GetsOf(q) ==
    LET todo == {cs \in Clients \X Slots : TRUE}
        RECURSIVE Rest(_)
        Rest(S) == IF S = {} THEN <<>>
                   ELSE LET cs == CHOOSE x \in S : TRUE
                        IN Destinations(q.pipelinesToGet[cs[1]][cs[2]])
                           \o Rest(S \ {cs})
    IN q.got \o Rest(todo)

TimesIn(seq, x) == Cardinality({j \in 1..Len(seq) : seq[j] = x})

\* Call r is past its pre-read, which did not fail.
PastPreRead(r) ==
    \/ reqs[r].pc \in {"incr", "tasks", "recv"}
    \/ Done(r) /\ reqs[r].out.err.op # "GET"

\* A GET of call r returns in this step: currentCount of its descriptor is
\* the counter of the key in the store of the key.
GetReadsCounter(r) ==
    \A i \in 1..Len(reqs[r].descs) :
        (/\ TimesIn(reqs'[r].got, i) > TimesIn(reqs[r].got, i)
         /\ reqs'[r].out.err = NoFailure)
        => reqs'[r].currentCount[i]
             = store[ClientOf(reqs[r].descs[i])][reqs[r].descs[i]]

\* C26: a call sends pre-read GETs exactly when the stop policy is enabled
\* and the local cache has none of its keys over the limit; its pre-read,
\* unless a GET pipeline fails and ends the call, reads every non-empty key
\* once and no empty key, every GET returns the counter of its key, and
\* descriptor i is near its limit exactly when the value read plus
\* hitsAddend[i] reaches the near-limit threshold of the rule.
C26_PreReadCondition ==
    /\ [](\A r \in 1..Len(reqs) :
            LET q == reqs[r]
            IN \A i \in 1..Len(q.descs) :
                 /\ TimesIn(q.got, i)
                      <= IF PreReadDue(q) /\ q.descs[i] # NoKey THEN 1 ELSE 0
                 /\ q.pc = "preread" =>
                       TimesIn(GetsOf(q), i) = IF q.descs[i] # NoKey THEN 1 ELSE 0
                 /\ q.pc = "preread" <=>
                       (PreReadDue(q) /\ ~PastPreRead(r) /\ ~Done(r))
                 /\ ~PreReadDue(q) => ~q.nearlimitIndexes[i]
                 /\ (PreReadDue(q) /\ PastPreRead(r)) =>
                       /\ TimesIn(q.got, i) = IF q.descs[i] # NoKey THEN 1 ELSE 0
                       /\ q.nearlimitIndexes[i]
                            = (/\ q.descs[i] # NoKey
                               /\ IsOverLimitThresholdReached(q.descs[i],
                                     q.currentCount[i] + hitsAddends(q)[i])))
    /\ [][\A r \in 1..Len(reqs) : GetReadsCounter(r)]_vars

\* On a cluster, a call for k1 and k2 has read both keys, k2 at 2, and
\* found both near their limit; the call before it, for a descriptor
\* without a rule and k2, has read k2 only.
C26_Witness ==
    /\ stopCacheKeyIncrementWhenOverlimit /\ isCluster["main"]
    /\ Len(reqs) = 2
    /\ reqs[1].descs = <<NoKey, "k2">> /\ reqs[1].got = <<2>>
    /\ reqs[2].descs = <<"k1", "k2">> /\ reqs[2].pc = "incr"
    /\ Len(reqs[2].got) = 2
    /\ reqs[2].currentCount = <<0, 2>>
    /\ reqs[2].nearlimitIndexes = <<TRUE, TRUE>>

\* ------------------------------------------------------------------------
\* Properties of the sketch and of the detector
\* ------------------------------------------------------------------------
\* C17: whatever the interleaving of RecordAccess, RecordAccessWithDelta,
\* decay, cleanup and Reset, the hot-key set holds at most maxHotKeys keys.
C17_HotSetBounded == Cardinality(hotKeys) <= maxHotKeys

\* A goroutine has touched a key another one had evicted in between: the
\* LRU list is longer than maxHotKeys while the set is at its capacity.
C17_Witness ==
    /\ Cardinality(hotKeys) = maxHotKeys
    /\ Len(hotKeysList) > maxHotKeys
    /\ \E i \in 1..Len(hotKeysList) : hotKeysList[i] \notin hotKeys

Saturated == \E row \in Rows, idx \in Cells : counters[row][idx] = CounterMax

\* C18: as long as neither Decay nor Reset has run and no cell is
\* saturated, the estimate of every key is at least the sum of the deltas
\* Increment was given for the key.
C18_EstimateAtLeastTrueCount ==
    (pristine /\ ~Saturated) =>
        \A k \in Keys : Estimate(counters, k) >= trueCount[k]

\* Both keys were incremented by concurrent calls; the shared cell of the
\* first row counts both, the estimate of k1 is its own count.
C18_Witness ==
    /\ pristine /\ ~Saturated
    /\ trueCount["k1"] = 5 /\ trueCount["k2"] = 1
    /\ counters[1][hash("k1", 1)] = 6
    /\ Estimate(counters, "k1") = 5
    /\ \A g \in Goroutines : gor[g].pc = "isHot"

\* A step in which the call of goroutine g returns.
Returns(g) == gor[g].pc # "idle" /\ gor'[g].pc = "idle"

\* A step in which goroutine g promotes its key.
Promotes(g) ==
    gor[g].pc = "promote" /\ Returns(g) /\ gor[g].key \notin hotKeys

\* C27: a promotion that finds the hot set at capacity evicts one key, the
\* hot key whose last promotion or RecordAccess is the oldest of the hot
\* set.
C27_EvictsLeastRecentlyUsed ==
    [][\A g \in Goroutines :
          (Promotes(g) /\ Cardinality(hotKeys) = maxHotKeys) =>
              hotKeys \ hotKeys' = {Head(recency)}]_vars

\* What a returning call must have done, given the hot set it is
\* measured against.
RecordAccessDid(g, before) ==
    LET k == gor[g].key
    IN IF k \in before
       THEN gor'[g].ret /\ k \in hotKeys'
       ELSE IF gor[g].count >= hotThreshold
            THEN gor'[g].ret /\ k \in hotKeys'
            ELSE ~gor'[g].ret /\ hotKeys' = before

CleanupStep == \E g \in Goroutines : gor[g].pc = "cleanupLoop"

PromotionOfOther(k) ==
    \E g \in Goroutines : gor[g].pc = "promote" /\ Returns(g) /\ gor[g].key # k

ResetStep ==
    /\ hotKeys' = {} /\ hotKeysList' = <<>>
    /\ counters' = CmsReset(counters)
    /\ gor' = gor

\* A call whose key was in the hot set when it looked returns true.
HotStaysHot ==
    \A g \in Goroutines : (Returns(g) /\ gor'[g].wasHot) => gor'[g].ret

\* C20 (as stated): a call for a key of the hot set returns true, and a key
\* leaves the hot set only by the LRU eviction of a promotion of another
\* key or by the cleanup after a decay.
C20_HotUntilEvictedOrCleaned ==
    [][/\ HotStaysHot
       /\ \A k \in hotKeys \ hotKeys' : PromotionOfOther(k) \/ CleanupStep]_vars

\* C20 (amended): ... or by Reset.
C20_HotUntilCooledOrReset ==
    [][/\ HotStaysHot
       /\ \A k \in hotKeys \ hotKeys' :
             PromotionOfOther(k) \/ CleanupStep \/ ResetStep]_vars

\* A second call on the hot key k1 has returned true and k1 is still hot.
C20_Witness ==
    \E g \in Goroutines :
        /\ gor[g].pc = "idle" /\ gor[g].key = "k1" /\ gor[g].ret
        /\ gor[g].hotAtIncrement = {"k1"}
        /\ hotKeys = {"k1"}

\* The callers that found the decay deadline passed under the read lock
\* and have not yet had the write lock of maybeDecay.
FoundDeadlinePassed == {g \in Goroutines : gor[g].pc = "decayLock"}

\* The callers that run the decay and the cleanup.
Decaying ==
    {g \in Goroutines : gor[g].pc \in {"decay", "cleanup", "cleanupLoop"}}

\* C28: of the callers of RecordAccess that find the decay deadline passed,
\* exactly one performs the decay and the cleanup for that deadline: at
\* most one caller decays per elapsed decayInterval, and while callers that
\* found the deadline passed are waiting, the decay is still to be taken or
\* one caller has taken it (Reset, which restarts the interval, apart).
C28_OneDecayPerDeadline ==
    /\ interval.decays <= 1
    /\ (FoundDeadlinePassed # {} /\ ~interval.reset) =>
           (decayDue \/ interval.decays = 1)

\* Both callers found the deadline passed; one of them is decaying, the
\* other is still before its double check, which will find nothing to do.
C28_Witness ==
    /\ FoundDeadlinePassed # {}
    /\ Decaying # {}
    /\ ~decayDue
    /\ interval.decays = 1

\* A step of the cleanup loop of goroutine g.
CleanupStepOf(g) == gor[g].pc = "cleanupLoop" /\ gor'[g] # gor[g]

\* C29: the cleanup after a decay takes a key out of the hot set exactly
\* when the estimate of the key is below hotThreshold as the cleanup looks
\* at it, and when it ends every key that is still hot is in the LRU list,
\* the hot keys in the order they had before.
C29_CleanupRemovesColdKeys ==
    [][\A g \in Goroutines : CleanupStepOf(g) =>
          IF gor[g].i <= Len(hotKeysList)
          THEN LET key == hotKeysList[gor[g].i]
               IN /\ hotKeys' = IF Estimate(counters, key) < hotThreshold
                                THEN hotKeys \ {key}
                                ELSE hotKeys
                  /\ hotKeysList' = hotKeysList
          ELSE /\ hotKeys' = hotKeys
               /\ Among(hotKeysList', hotKeys) = Among(hotKeysList, hotKeys)
               /\ \A k \in hotKeys :
                     \E i \in 1..Len(hotKeysList') : hotKeysList'[i] = k]_vars

\* The cleanup after the first decay has ended: it took k3 out of the hot
\* set and left k2, whose estimate is at the threshold, before k1.
C29_Witness ==
    /\ interval.decays = 1 /\ Decaying = {}
    /\ \E g \in Goroutines : gor[g].pc = "increment"
    /\ hotKeys = {"k1", "k2"}
    /\ hotKeysList = <<"k2", "k1">>
    /\ Estimate(counters, "k2") = hotThreshold
    /\ Estimate(counters, "k3") < hotThreshold

\* C30: Increment never wraps a cell: the key's cell of every row becomes
\* min(c + d, 2^CounterBits - 1) for its value c and the delta d, every other
\* cell keeps its value, and the value returned is what Estimate of the key
\* returns on the sketch right after the call.
C30_IncrementSaturates ==
    \A n \in 1..Len(calls) :
        LET call == calls[n]
        IN /\ \A row \in Rows, idx \in Cells :
                 call.after[row][idx] =
                     IF idx = hash(call.key, row)
                     THEN Min(call.before[row][idx] + call.delta,
                              2^CounterBits - 1)
                     ELSE call.before[row][idx]
           /\ call.ret = Estimate(call.after, call.key)

\* An Increment whose delta overflows the key's cell of the first row and
\* not that of the second: the first is capped, the second is returned.
C30_Witness ==
    \E n \in 1..Len(calls) :
        LET call == calls[n]
            first == call.before[1][hash(call.key, 1)]
            second == call.before[2][hash(call.key, 2)]
        IN /\ first + call.delta > CounterMax
           /\ second + call.delta < CounterMax
           /\ call.after[1][hash(call.key, 1)] = CounterMax
           /\ call.ret = second + call.delta

\* The pipelines of the increment phase of call r, by client and slot.
IncrPipelines(r) ==
    {reqs[r].pipelines[c][slot] : c \in Clients, slot \in Slots}

\* Pipeline p is a sequence of pairs: INCRBY of the key of a descriptor,
\* bound to the result of that descriptor, then EXPIRE of the same key,
\* bound to nothing; the descriptors of the pairs ascend.
WellPaired(r, p) ==
    /\ Len(p) % 2 = 0
    /\ \A j \in 1..Len(p) :
          IF j % 2 = 1
          THEN /\ p[j].op = "INCRBY"
               /\ p[j].dst \in 1..Len(reqs[r].descs)
               /\ p[j].key = reqs[r].descs[p[j].dst]
               /\ j + 1 <= Len(p)
               /\ p[j + 1].op = "EXPIRE" /\ p[j + 1].key = p[j].key
               /\ j + 2 <= Len(p) => p[j].dst < p[j + 2].dst
          ELSE p[j].op = "EXPIRE" /\ p[j].dst = 0

\* No descriptor has its INCRBY in two places.
BoundOnce(r) ==
    \A i \in 1..Len(reqs[r].descs) :
        Cardinality({<<c, slot, j>> \in Clients \X Slots \X (1..4) :
                        /\ j <= Len(reqs[r].pipelines[c][slot])
                        /\ reqs[r].pipelines[c][slot][j].dst = i}) <= 1

\* A step in which a pipeline of call r is executed and the call takes the
\* replies: results[i] is the counter of the key of descriptor i for the
\* descriptors of the pipeline and is unchanged for the others.
RepliesBound(r) ==
    (/\ reqs[r].pc = "tasks"
     /\ reqs'[r].recorded = reqs[r].recorded
     /\ reqs'[r].pipelines # reqs[r].pipelines) =>
        \A i \in 1..Len(reqs[r].descs) :
            LET key == reqs[r].descs[i]
                c == ClientOf(key)
                p == reqs[r].pipelines[c][GetSlot(c, key)]
                run == /\ reqs'[r].pipelines[c][GetSlot(c, key)] = <<>>
                       /\ \E j \in 1..Len(p) : p[j].dst = i
            IN reqs'[r].results[i] =
                   IF run THEN store'[c][key] ELSE reqs[r].results[i]

\* C31: in every pipeline of the increment phase each INCRBY of a key is
\* directly followed by the EXPIRE of the same key, the pairs of the
\* descriptors that share a pipeline are in descriptor order, and the reply
\* of the INCRBY of descriptor i is written to results[i] and nowhere else.
C31_IncrExpirePairs ==
    /\ [](\A r \in 1..Len(reqs) :
             /\ \A p \in IncrPipelines(r) : WellPaired(r, p)
             /\ BoundOnce(r))
    /\ [][\A r \in 1..Len(reqs) : RepliesBound(r)]_vars

\* Both descriptors of a call share the pipeline of slot 0 of the main
\* client, and a call has taken the replies of such a pipeline.
C31_Witness ==
    /\ \E r \in 1..Len(reqs) :
          /\ reqs[r].pc = "tasks"
          /\ Len(reqs[r].pipelines["main"][0]) = 4
    /\ \E r \in 1..Len(reqs) :
          /\ reqs[r].pc = "done"
          /\ Len(reqs[r].descs) = 2
          /\ reqs[r].hotKeyResultChans = <<0, 0>>
          /\ reqs[r].results = <<store["main"]["k1"], store["main"]["k2"]>>
          /\ reqs[r].results[1] > 0 /\ reqs[r].results[2] > 0

\* C32: every TTL set on a counter key, by a slot pipeline or by a batcher
\* flush, is at least the unit of the key's rule in seconds and at most the
\* unit plus the configured jitter maximum; without jitter it is the unit.
C32_TtlWithinJitter ==
    \A c \in Clients, key \in Keys :
        ttl[c][key] # 0 =>
            /\ ttl[c][key] >= UnitToDivider(key)
            /\ ttl[c][key] <= UnitToDivider(key) + ExpirationJitterMaxSeconds
            /\ ExpirationJitterMaxSeconds = 0 =>
                   ttl[c][key] = UnitToDivider(key)

\* With a jitter maximum of 2, a flush has set the larger expiration of two
\* submits on k1 and a slot pipeline an expiration with jitter on k2.
C32_Witness ==
    /\ ExpirationJitterMaxSeconds = 2
    /\ ttl["main"]["k1"] = UnitToDivider("k1") + 1
    /\ ttl["main"]["k2"] = UnitToDivider("k2") + 1
    /\ \E id \in 1..Len(waiters) :
          /\ waiters[id].key = "k1" /\ Delivered(id)
          /\ waiters[id].expirationSeconds = UnitToDivider("k1")
    /\ \E r \in 1..Len(reqs) :
          /\ Len(reqs[r].descs) = 2
          /\ reqs[r].hotKeyResultChans[2] = 0
          /\ reqs[r].pc = "done"

\* Client c has, or has had, a store operation of the key: the store holds
\* a count or a TTL for it, a pipeline of a call or a batch of the batcher
\* of c names it, or a waiter of the batcher of c is for it.
Serves(c, key) ==
    \/ store[c][key] # 0 \/ ttl[c][key] # 0
    \/ pending[c][key].exists \/ worker[c].toFlush[key].exists
    \/ \E id \in 1..Len(waiters) :
          waiters[id].client = c /\ waiters[id].key = key
    \/ \E r \in 1..Len(reqs), slot \in Slots :
          \/ \E j \in 1..Len(reqs[r].pipelinesToGet[c][slot]) :
                reqs[r].pipelinesToGet[c][slot][j].key = key
          \/ \E j \in 1..Len(reqs[r].pipelines[c][slot]) :
                reqs[r].pipelines[c][slot][j].key = key

\* C33: the store operations of a key all go to one store, in every call
\* and phase and whether the key is hot or not: to the per-second client
\* and its batcher when there is a per-second client and the key is a
\* per-second key, to the main client and its batcher otherwise.
C33_OneStorePerKey ==
    \A key \in Keys :
        /\ (perSecondClient /\ PerSecond(key)) => ~Serves("main", key)
        /\ ~(perSecondClient /\ PerSecond(key)) => ~Serves("perSecond", key)

\* With a per-second client: the per-second key was read by the pre-read,
\* sent through the per-second batcher in one call and in a pipeline of the
\* per-second client in another; the other key is on the main client.
C33_Witness ==
    /\ perSecondClient /\ stopCacheKeyIncrementWhenOverlimit
    /\ store["main"]["k1"] > 0
    /\ \E id \in 1..Len(waiters) :
          /\ waiters[id].key = "k2" /\ waiters[id].client = "perSecond"
          /\ Delivered(id)
    /\ \E r \in 1..Len(reqs) :
          /\ reqs[r].pc = "done"
          /\ Len(reqs[r].descs) = 2
          /\ reqs[r].got # <<>>
          /\ reqs[r].hotKeyResultChans[2] = 0
          /\ reqs[r].results[2] = store["perSecond"]["k2"]
          /\ ttl["perSecond"]["k2"] # 0

\* The successful increments of the key with a positive addend and the
\* positions of the counter each was told it occupies, (result - addend,
\* result]: those of the slot pipelines, by call and descriptor, and those
\* of the batcher, by waiter.
Increments(key) ==
    {[who |-> <<"cold", r, i>>,
      at |-> (reqs[r].results[i] - reqs[r].hitsAddend[i] + 1)
                 ..reqs[r].results[i]] :
        <<r, i>> \in {ri \in (1..Len(reqs)) \X (1..2) :
                        /\ ri[2] <= Len(reqs[ri[1]].descs)
                        /\ reqs[ri[1]].descs[ri[2]] = key
                        /\ reqs[ri[1]].hotKeyResultChans[ri[2]] = 0
                        /\ reqs[ri[1]].hitsAddend[ri[2]] > 0
                        /\ reqs[ri[1]].results[ri[2]] > 0}}
    \cup
    {[who |-> <<"hot", id, 0>>,
      at |-> (waiters[id].sent[1].Value - waiters[id].hitsAddend + 1)
                 ..waiters[id].sent[1].Value] :
        id \in {w \in 1..Len(waiters) :
                  /\ waiters[w].key = key
                  /\ waiters[w].hitsAddend > 0
                  /\ waiters[w].sent # <<>>
                  /\ waiters[w].sent[1].Err = NoErr}}

SubmittedAfterFinalSwap(id) ==
    /\ Len(waiters) >= id
    /\ worker[waiters[id].client].pc \in {"final", "exited"}
    /\ id \in Members(pending[waiters[id].client][waiters[id].key].waiters)

\* C35: a Submit that enters the pending map after the final flush of Stop
\* has swapped the map is still sent a result eventually, so that the
\* DoLimit call reading its channel does not wait for ever.
C35_LateSubmitAnswered ==
    \A id \in 1..MaxSubmits : SubmittedAfterFinalSwap(id) ~> Delivered(id)


\* The flushLoop goroutine of hotKeyBatcher has not returned.
WorkerRuns == worker["main"].pc \in {"select", "flush", "final"}

\* C36: in every sequence of Start and Stop calls on hotKeyBatcher no call
\* panics, and while no call is under way and the most recent call was
\* Start (b.running is true) a flushLoop goroutine is running.
C36_RestartWorks ==
    /\ ~panicked
    /\ (caller.pc = "idle" /\ running["main"]) => WorkerRuns


\* The DoLimit calls that panicked on an error of a slot pipeline while a
\* batcher result of theirs was still to be received.
StoppedListening(id) ==
    \E r \in 1..Len(reqs) :
        /\ Done(r)
        /\ reqs[r].out.err.op = "INCRBY"
        /\ \E i \in Awaited(reqs[r]) : reqs[r].hotKeyResultChans[i] = id

\* C37: no channel of a waiter ever holds more results than its capacity
\* of 1, a channel is sent one result and then closed, and a worker that is
\* inside flush can always go on: every send of its batch goes through
\* without a receiver, so the worker returns to its select also when the
\* submitter has stopped listening.
C37_FlushNeverBlocks ==
    /\ \A id \in 1..Len(waiters) :
          /\ Len(waiters[id].chan) <= 1
          /\ Len(waiters[id].sent) <= 1
          /\ waiters[id].closed <=> waiters[id].sent # <<>>
    /\ \A c \in Clients :
          worker[c].pc \in {"flush", "final"} =>
              /\ \A id \in FlushWaiters(worker[c].toFlush) :
                    SendReady(id) /\ ~waiters[id].closed
              /\ panicked \/ ENABLED FlushExec(c)

\* A call failed on a slot pipeline before it read its channel; the worker
\* has delivered the result all the same, it stays in the channel, and the
\* worker is back in its select.
C37_Witness ==
    \E id \in 1..Len(waiters) :
        /\ StoppedListening(id)
        /\ waiters[id].closed
        /\ Len(waiters[id].chan) = 1
        /\ worker[waiters[id].client].pc = "select"


\* The keys held by a list.
ListKeys(seq) == {seq[i] : i \in 1..Len(seq)}

\* C38: in every state of the detector in which d.mu is free, under any
\* interleaving of RecordAccess calls, cleanup and eviction, d.hotKeysList
\* holds exactly the keys of d.hotKeys and holds none of them twice.
C38_ListMatchesMap ==
    mu = "none" =>
        /\ ListKeys(hotKeysList) = hotKeys
        /\ Len(hotKeysList) = Cardinality(hotKeys)


\* C39: in the verdict loop results[i] is at least hitsAddends[i] for every
\* descriptor with a rule, so limitBeforeIncrease is the count before the
\* request and the unsigned subtraction does not wrap.
C39_NoUnderflow ==
    \A r \in 1..Len(reqs) :
        Succeeded(r) =>
            \A i \in 1..Len(reqs[r].descs) :
                reqs[r].descs[i] # NoKey =>
                    /\ reqs[r].results[i] >= hitsAddends(reqs[r])[i]
                    /\ reqs[r].limitBeforeIncrease[i]
                         = reqs[r].results[i] - hitsAddends(reqs[r])[i]

==========================================================================
